---- MODULE Spec2Model ----
(***************************************************************************)
(* A model of PDFProcessor (pdf-processor.ts): the registry of loaded      *)
(* PDFs, the asynchronous loadPDF with its suspension points, the lookup   *)
(* operations and the operations that re-open the source.                  *)
(*                                                                         *)
(* Strings the program computes with are sequences of one-character        *)
(* strings; messages whose text is never inspected are tuples of their     *)
(* template parts.                                                         *)
(***************************************************************************)
EXTENDS Integers, Sequences, FiniteSets, Bags, TLC

VARIABLES
    source,      \* what each location currently serves (the world outside)
    loadedPDFs,  \* PDFProcessor.loadedPDFs, a Map in insertion order
    inflight,    \* the bag of calls in progress (async calls at an await; in
                 \* SpecScan the search, between two steps of its loops)
    ret,         \* the call settled by the last step, if it settled one
    completed    \* per location, the loads that have succeeded so far (history)

vars == <<source, loadedPDFs, inflight, ret, completed>>

----------------------------------------------------------------------------
(* Bounds of the model *)

\* how many async calls may be suspended at the same time
MaxCalls == 2

\* page-number arguments range over 0 .. MaxPageArg
MaxPageArg == 4

\* resolutions compared range over 1 .. MaxDpi
MaxDpi == 300

\* a search followed step by step records up to MaxMatches matches on a page
MaxMatches == 20

\* the text contents given to the page text loop have up to MaxItems items
MaxItems == 3

\* the data of an image object given to the image loop has up to
\* MaxImageBytes bytes
MaxImageBytes == 3

----------------------------------------------------------------------------
(* Locations and ids *)

LocalPath == [scheme |-> "", rest |-> "/docs/a.pdf"]
UrlPath == [scheme |-> "https://", rest |-> "host/b.pdf"]
Locations == {LocalPath, UrlPath}

\* path.startsWith('http://') || path.startsWith('https://')
IsURL(path) == path.scheme \in {"http://", "https://"}

\* createHash("md5").update(path).digest("hex"): a digest of the path string
\* and of nothing else
MD5(path) ==
    CASE path = LocalPath -> "0f3a9c"
      [] path = UrlPath -> "b71e42"
      [] OTHER -> "d41d8c"

\* an id no load ever returns
UnknownId == "non-existent"
IdArgs == {MD5(l) : l \in Locations} \cup {UnknownId}

----------------------------------------------------------------------------
(* The documents the document layer (pdfjs) can yield.  A page has its     *)
(* object reference, its box in points, its text items (or a failing text  *)
(* extraction) and whether painting it fails.                              *)

\* the image-painting opcodes of an operator list
PaintJpegXObject == 82
PaintImageMaskXObject == 83
PaintImageXObject == 85

Ref(n) == [isRef |-> TRUE, num |-> n, gen |-> 0]
Op(fn, name) == [fn |-> fn, arg |-> name]
\* an image object of page.objs; getFails: page.objs.get throws
Image(data, width, height, kind) ==
    [getFails |-> FALSE, data |-> data, width |-> width, height |-> height,
     kind |-> kind]
BrokenImage == [getFails |-> TRUE, data |-> <<>>, width |-> 0, height |-> 0, kind |-> 0]
NoObjs == [n \in {} |-> BrokenImage]
Item(s, y) == [hasStr |-> TRUE, str |-> s, y |-> y]
\* a run of n full stops, to make a line long
Filler(n) == [k \in 1 .. n |-> "."]
MarkedContent == [hasStr |-> FALSE, str |-> <<>>, y |-> 0]
NoDest == [kind |-> "none", name |-> "", target |-> <<>>]
NamedDest(n) == [kind |-> "named", name |-> n, target |-> <<>>]
ExplicitDest(t) == [kind |-> "explicit", name |-> "", target |-> t]

DocA ==
    [ numPages |-> 2,
      metadata |-> [fails |-> FALSE, present |-> TRUE, info |-> "InfoA"],
      outline  |-> [fails |-> FALSE, items |->
         << [title |-> "Ch1", dest |-> ExplicitDest(<<Ref(11)>>), items |->
               << [title |-> "Sec1.1", dest |-> NamedDest("sec"), items |-> <<>>],
                  [title |-> "Sec1.2", dest |-> NamedDest("gone"), items |-> <<>>] >>],
            [title |-> "Ch2", dest |-> NoDest, items |-> <<>>] >>],
      dests    |-> [n \in {"sec", "gone"} |->
                      IF n = "sec" THEN [fails |-> FALSE, target |-> <<Ref(12)>>]
                                   ELSE [fails |-> TRUE, target |-> <<>>]],
      pages    |->
         << [ref |-> Ref(11), width |-> 612, height |-> 792,
             textFails |-> FALSE, renderFails |-> FALSE,
             items |-> << Item(<<"H", "i">>, 700), Item(<<" ", "y", "o">>, 700),
                          MarkedContent, Item(<<"a", "b">>, 680) >>,
             ops   |-> << Op(PaintImageXObject, "jpg"), Op(44, ""),
                          Op(PaintJpegXObject, "bad"),
                          Op(PaintImageMaskXObject, "gray"),
                          Op(PaintImageXObject, "png") >>,
             objs  |-> [n \in {"jpg", "bad", "gray", "png"} |->
                          CASE n = "jpg" -> Image(<<255, 216, 1>>, 2, 1, 0)
                            [] n = "bad" -> BrokenImage
                            [] n = "gray" -> Image(<<7, 9>>, 2, 1, 2)
                            [] n = "png" -> Image(<<137, 80, 5>>, 1, 1, 0)]],
            [ref |-> Ref(12), width |-> 30, height |-> 40,
             textFails |-> FALSE, renderFails |-> FALSE,
             items |-> << Item(<<"-", "-", "-", " ", "P", "a", "g", "e", " ", "1",
                                 " ", "-", "-", "-">>, 700) >>,
             ops   |-> << Op(44, "") >>,
             objs  |-> NoObjs] >> ]

DocB ==
    [ numPages |-> 3,
      metadata |-> [fails |-> TRUE, present |-> FALSE, info |-> "null"],
      outline  |-> [fails |-> FALSE, items |-> <<>>],
      dests    |-> [n \in {} |-> [fails |-> TRUE, target |-> <<>>]],
      pages    |->
         << [ref |-> Ref(21), width |-> 595, height |-> 842,
             textFails |-> FALSE, renderFails |-> FALSE,
             items |-> << Item(<<"x">>, 500), Item(<<"y">>, 499) >>,
             ops   |-> <<>>,
             objs  |-> NoObjs],
            [ref |-> Ref(22), width |-> 595, height |-> 842,
             textFails |-> TRUE, renderFails |-> TRUE,
             items |-> <<>>,
             ops   |-> <<>>,
             objs  |-> NoObjs],
            [ref |-> Ref(23), width |-> 842, height |-> 595,
             textFails |-> FALSE, renderFails |-> FALSE,
             items |-> << Item(<<"H", "e", "l", "l", "o">>, 400),
                          Item(<<"W", "o", "r", "l", "d">>, 380),
                          Item(<<"U+0130", "h", "e", "l", "l", "o">>, 360) >>,
             ops   |-> << Op(PaintImageXObject, "rgb") >>,
             objs  |-> [n \in {"rgb"} |-> Image(<<10, 20, 30>>, 1, 1, 1)]] >> ]

\* A larger document: an outline four levels deep, and a page whose second
\* line is long, with a space at position 54 and a capital I with dot above
\* at position 60 of the page text.  Of its outline nodes some have no
\* destination, one names a destination whose lookup throws ("broken"), one
\* a destination that does not exist ("nowhere"), one refers to a page
\* object the document does not have (99), and one has a page number where
\* the reference should be.
Leaf(t) == [title |-> t, dest |-> NoDest, items |-> <<>>]
DocC ==
    [ numPages |-> 2,
      metadata |-> [fails |-> FALSE, present |-> TRUE, info |-> "InfoC"],
      outline  |-> [fails |-> FALSE, items |->
         << [title |-> "Part I", dest |-> ExplicitDest(<<Ref(31)>>), items |->
               << [title |-> "Ch 1", dest |-> NamedDest("broken"), items |->
                     << [title |-> "Sec 1.1", dest |-> ExplicitDest(<<Ref(32)>>),
                         items |-> << [title |-> "Par a", items |-> <<>>,
                                       dest |-> ExplicitDest(<<Ref(99)>>)],
                                      [title |-> "Par b", items |-> <<>>,
                                       dest |-> NamedDest("p2")] >>],
                        [title |-> "Sec 1.2", items |-> <<>>,
                         dest |-> ExplicitDest(<<[isRef |-> FALSE, num |-> 1,
                                                  gen |-> 0]>>)] >>],
                  Leaf("Ch 2") >>],
            [title |-> "Part II", dest |-> NamedDest("nowhere"), items |-> <<>>],
            [title |-> "Part III", dest |-> NoDest, items |->
               << [title |-> "Ch 3", dest |-> ExplicitDest(<<Ref(32)>>),
                   items |-> <<>>] >>] >>],
      dests    |-> [n \in {"broken", "p2"} |->
                      IF n = "p2" THEN [fails |-> FALSE, target |-> <<Ref(32)>>]
                                  ELSE [fails |-> TRUE, target |-> <<>>]],
      pages    |->
         << [ref |-> Ref(31), width |-> 500, height |-> 700,
             textFails |-> FALSE, renderFails |-> FALSE,
             items |-> << Item(<<"H", "e", "l", "l", "o">>, 400),
                          Item(Filler(48) \o <<" ">> \o Filler(5) \o <<"U+0130">>
                                  \o Filler(55), 380) >>,
             ops   |-> <<>>,
             objs  |-> NoObjs],
            [ref |-> Ref(32), width |-> 500, height |-> 700,
             textFails |-> FALSE, renderFails |-> FALSE,
             items |-> << Item(<<"U+0130">>, 400) >>,
             ops   |-> <<>>,
             objs  |-> NoObjs] >> ]

\* the byte contents a location can serve: PDFs and bytes that are no PDF
PdfBytes == {"docA", "docB", "docC"}
Bytes == PdfBytes \cup {"garbage"}

\* pdfjsLib.getDocument({data}).promise, for bytes that are a PDF
Parse(bytes) ==
    IF bytes = "docA" THEN DocA ELSE IF bytes = "docC" THEN DocC ELSE DocB

\* what a location can serve: bytes, or nothing that can be read or reached
\* ("missing": readFile or fetch rejects), or, for a URL, a non-2xx response
SourceStates(path) ==
    IF IsURL(path) THEN {"docB", "missing", "http404"}
    ELSE {"docA", "docB", "garbage", "missing"}

----------------------------------------------------------------------------
(* Outcomes and error messages *)

Ok(v) == [ok |-> TRUE, value |-> v]
Err(m) == [ok |-> FALSE, error |-> m]

NotFound == <<"PDF not found. Please load it first.">>
InvalidPageNumber(n) == <<"Invalid page number. PDF has ", ToString(n), " pages.">>
InvalidRange(n) == <<"Invalid page range. PDF has ", ToString(n), " pages.">>

\* The message of a rejection raised by a collaborator (readFile, fetch,
\* pdfjs) is whatever that collaborator put there; loadPDF neither sets nor
\* tags it, so it is any of the messages a rejection can carry.
CauseMessages == {<<"cause-1">>, <<"cause-2">>}

\* throw new Error(`Failed to fetch PDF from URL: ${status} ${statusText}`)
HttpError == <<"Failed to fetch PDF from URL: ", "404", " ", "Not Found">>

\* throw new Error(`Failed to load PDF: ${error.message}`)
LoadError_noCause(cause) == <<"Failed to load PDF: ">>
LoadError(cause) == <<"Failed to load PDF: ">> \o cause

----------------------------------------------------------------------------
(* loadPDF: the values it derives from the opened document *)

\* metaData ? metaData.info : null, and null when getMetadata() throws
ExtractMetadata(doc) ==
    IF doc.metadata.fails \/ ~doc.metadata.present THEN "null"
    ELSE doc.metadata.info

Abs(x) == IF x < 0 THEN -x ELSE x

\* the loop over textContent.items: a line break before an item whose
\* transform[5] differs from the previous item's by more than 1.
\* lastY is <<>> for null and <<y>> once set.
RECURSIVE JoinItems_atLeastOne(_, _, _)
JoinItems_atLeastOne(items, lastY, pageText) ==
    IF items = <<>> THEN pageText
    ELSE LET item == Head(items) IN
         IF ~item.hasStr THEN JoinItems_atLeastOne(Tail(items), lastY, pageText)
         ELSE LET brk == IF lastY # <<>> /\ Abs(lastY[1] - item.y) >= 1
                         THEN <<"\n">> ELSE <<>>
              IN JoinItems_atLeastOne(Tail(items), <<item.y>>,
                                      pageText \o brk \o item.str)
RECURSIVE JoinItems(_, _, _)
JoinItems(items, lastY, pageText) ==
    IF items = <<>> THEN pageText
    ELSE LET item == Head(items) IN
         IF ~item.hasStr THEN JoinItems(Tail(items), lastY, pageText)
         ELSE LET brk == IF lastY # <<>> /\ Abs(lastY[1] - item.y) > 1
                         THEN <<"\n">> ELSE <<>>
              IN JoinItems(Tail(items), <<item.y>>, pageText \o brk \o item.str)

\* one iteration of the page loop: the page's text, '' when getPage or
\* getTextContent throws
PageText_afterFailure(doc, i) ==
    IF \E j \in 1 .. i : doc.pages[j].textFails THEN <<>>
    ELSE JoinItems(doc.pages[i].items, <<>>, <<>>)
PageText(doc, i) ==
    IF doc.pages[i].textFails THEN <<>>
    ELSE JoinItems(doc.pages[i].items, <<>>, <<>>)

\* getPageIndex: the 0-based index of the first page whose ref has the
\* reference's num and gen; {} for null
GetPageIndex(doc, pageRef) ==
    IF ~pageRef.isRef THEN {}
    ELSE LET hits == {i \in 0 .. doc.numPages - 1 :
                        /\ doc.pages[i + 1].ref.num = pageRef.num
                        /\ doc.pages[i + 1].ref.gen = pageRef.gen}
         IN IF hits = {} THEN {}
            ELSE {CHOOSE i \in hits : \A j \in hits : i <= j}

\* the destination of an outline node resolved to a 1-based page; {} when
\* the node has no destination, the named lookup throws or finds nothing,
\* or no page carries the reference
ResolvePage(doc, dest) ==
    IF dest.kind = "none" THEN {}
    ELSE LET target ==
                 IF dest.kind = "named"
                 THEN IF dest.name \in DOMAIN doc.dests /\ ~doc.dests[dest.name].fails
                      THEN doc.dests[dest.name].target
                      ELSE <<>>
                 ELSE dest.target
         IN IF target = <<>> THEN {}
            ELSE {pageIndex + 1 : pageIndex \in GetPageIndex(doc, target[1])}

\* processOutline(outline, doc, level).  An OutlineItem's optional page is
\* a set of at most one number; children is <<>> when the field is unset
\* (it is only ever set to a non-empty list).
RECURSIVE ProcessOutline_sameLevel(_, _, _)
ProcessOutline_sameLevel(outline, doc, level) ==
    [k \in 1 .. Len(outline) |->
        [ title    |-> outline[k].title,
          level    |-> level,
          page     |-> ResolvePage(doc, outline[k].dest),
          children |-> IF Len(outline[k].items) > 0
                       THEN ProcessOutline_sameLevel(outline[k].items, doc, level)
                       ELSE <<>> ]]

RECURSIVE ProcessOutline_stopsAtFailure(_, _, _)
ProcessOutline_stopsAtFailure(outline, doc, level) ==
    LET thrown == {k \in 1 .. Len(outline) :
                     /\ outline[k].dest.kind = "named"
                     /\ outline[k].dest.name \in DOMAIN doc.dests
                     /\ doc.dests[outline[k].dest.name].fails}
        n == IF thrown = {} THEN Len(outline)
             ELSE (CHOOSE k \in thrown : \A j \in thrown : k <= j) - 1
    IN [k \in 1 .. n |->
           [ title    |-> outline[k].title,
             level    |-> level,
             page     |-> ResolvePage(doc, outline[k].dest),
             children |-> IF Len(outline[k].items) > 0
                          THEN ProcessOutline_stopsAtFailure(outline[k].items, doc,
                                                             level + 1)
                          ELSE <<>> ]]

RECURSIVE ProcessOutline(_, _, _)
ProcessOutline(outline, doc, level) ==
    [k \in 1 .. Len(outline) |->
        [ title    |-> outline[k].title,
          level    |-> level,
          page     |-> ResolvePage(doc, outline[k].dest),
          children |-> IF Len(outline[k].items) > 0
                       THEN ProcessOutline(outline[k].items, doc, level + 1)
                       ELSE <<>> ]]

\* the outline local of loadPDF: <<>> for undefined (no outline, an empty
\* one, or getOutline() throwing)
ExtractOutlineOf(doc) ==
    IF doc.outline.fails \/ Len(doc.outline.items) = 0 THEN <<>>
    ELSE ProcessOutline(doc.outline.items, doc, 0)

----------------------------------------------------------------------------
(* The registry: a Map, which keeps its keys in insertion order and keeps  *)
(* the position of a key that is set again.                                *)

MapHas(m, id) == \E k \in 1 .. Len(m) : m[k].id = id
MapGet(m, id) == m[CHOOSE k \in 1 .. Len(m) : m[k].id = id]
MapKeys(m) == {m[k].id : k \in 1 .. Len(m)}

\* this.loadedPDFs.set(id, record)
MapSet_keepFirst(m, rec) ==
    IF MapHas(m, rec.id) THEN m ELSE Append(m, rec)
MapSet_evictOthers(m, rec) == <<rec>>
MapSet(m, rec) ==
    IF MapHas(m, rec.id)
    THEN [k \in 1 .. Len(m) |-> IF m[k].id = rec.id THEN rec ELSE m[k]]
    ELSE Append(m, rec)

----------------------------------------------------------------------------
(* Suspended calls.  A call is a record of its locals and of the await it  *)
(* is suspended at (pc); the bag holds one copy per suspended call.        *)

Spawn(c) == inflight (+) SetToBag({c})
Resume(c, d) == (inflight (-) SetToBag({c})) (+) SetToBag({d})
Settle(c) == inflight (-) SetToBag({c})
Suspended == BagToSet(inflight)
CanCall == BagCardinality(inflight) < MaxCalls

\* the settled call: op and args as called, the outcome, and the step of
\* the operation at which it settled ("call": before its first await)
Settled(op, args, stage, out) ==
    [op |-> op, args |-> args, stage |-> stage, out |-> out]

\* a step that settles no call
NoCall == Settled("none", <<>>, "call", Ok(<<>>))

----------------------------------------------------------------------------
(* loadPDF(path) *)

\* the record loadPDF stores
LoadedRecord(path, doc, metadata, outline, pages) ==
    [ id        |-> MD5(path),
      path      |-> path,
      pageCount |-> doc.numPages,
      pages     |-> pages,
      metadata  |-> metadata,
      outline   |-> outline ]

\* the call runs to its first await: fetch(path) or readFile(path)
LoadPDF(path) ==
    /\ CanCall
    /\ inflight' = Spawn([kind |-> "loadPDF", path |-> path, pc |-> "fetch",
                          bytes |-> "", metadata |-> "null", outline |-> <<>>,
                          pages |-> <<>>])
    /\ ret' = NoCall
    /\ UNCHANGED <<source, loadedPDFs, completed>>

LoadFails_dropsRecord(c, stage, cause) ==
    /\ inflight' = Settle(c)
    /\ ret' = Settled("loadPDF", [path |-> c.path], stage, Err(LoadError(cause)))
    /\ loadedPDFs' = SelectSeq(loadedPDFs, LAMBDA pdf : pdf.path # c.path)
    /\ UNCHANGED <<source, completed>>
LoadFails(c, stage, cause) ==
    /\ inflight' = Settle(c)
    /\ ret' = Settled("loadPDF", [path |-> c.path], stage, Err(LoadError(cause)))
    /\ UNCHANGED <<source, loadedPDFs, completed>>

\* fetch / readFile settles: a rejection (network error, read error) or a
\* non-2xx response ends the call in the catch block; otherwise the bytes
\* are in hand (response.arrayBuffer() is taken with the fetch) and the call
\* awaits getDocument
LoadFetched(c) ==
    /\ c.kind = "loadPDF" /\ c.pc = "fetch"
    /\ \/ /\ source[c.path] = "missing"
          /\ \E cause \in CauseMessages : LoadFails(c, "fetch", cause)
       \/ /\ source[c.path] = "http404"
          /\ LoadFails(c, "fetch", HttpError)
       \/ /\ source[c.path] \in Bytes
          /\ inflight' = Resume(c, [c EXCEPT !.pc = "open", !.bytes = source[c.path]])
          /\ ret' = NoCall
          /\ UNCHANGED <<source, loadedPDFs, completed>>

\* getDocument settles: bytes that are no PDF reject into the catch block
LoadOpened(c) ==
    /\ c.kind = "loadPDF" /\ c.pc = "open"
    /\ \/ /\ c.bytes \notin PdfBytes
          /\ \E cause \in CauseMessages : LoadFails(c, "open", cause)
       \/ /\ c.bytes \in PdfBytes
          /\ inflight' = Resume(c, [c EXCEPT !.pc = "metadata"])
          /\ ret' = NoCall
          /\ UNCHANGED <<source, loadedPDFs, completed>>

\* getMetadata settles (its failure is caught and leaves null)
LoadMetadata(c) ==
    /\ c.kind = "loadPDF" /\ c.pc = "metadata"
    /\ inflight' = Resume(c, [c EXCEPT !.pc = "outline",
                                       !.metadata = ExtractMetadata(Parse(c.bytes))])
    /\ ret' = NoCall
    /\ UNCHANGED <<source, loadedPDFs, completed>>

\* getOutline and processOutline settle (a failure is caught and leaves
\* the outline undefined); the page loop starts
LoadOutline(c) ==
    /\ c.kind = "loadPDF" /\ c.pc = "outline"
    /\ inflight' = Resume(c, [c EXCEPT !.pc = "pages",
                                       !.outline = ExtractOutlineOf(Parse(c.bytes))])
    /\ ret' = NoCall
    /\ UNCHANGED <<source, loadedPDFs, completed>>

\* what the registry holds while the page loop is still running
RegistryDuringPages_early(m, c, pages) ==
    MapSet(m, LoadedRecord(c.path, Parse(c.bytes), c.metadata, c.outline, pages))
RegistryDuringPages(m, c, pages) == m

\* one iteration of the page loop settles (getPage, getTextContent); after
\* the last one the call runs on without suspending: doc.destroy(), the id,
\* loadedPDFs.set and the return
LoadPage(c) ==
    /\ c.kind = "loadPDF" /\ c.pc = "pages"
    /\ LET doc == Parse(c.bytes)
           pages == Append(c.pages, PageText(doc, Len(c.pages) + 1))
           rec == LoadedRecord(c.path, doc, c.metadata, c.outline, pages)
       IN IF Len(pages) < doc.numPages
          THEN /\ inflight' = Resume(c, [c EXCEPT !.pages = pages])
               /\ loadedPDFs' = RegistryDuringPages(loadedPDFs, c, pages)
               /\ ret' = NoCall
               /\ UNCHANGED <<source, completed>>
          ELSE /\ inflight' = Settle(c)
               /\ loadedPDFs' = MapSet(loadedPDFs, rec)
               /\ ret' = Settled("loadPDF", [path |-> c.path], "done",
                                 Ok([id |-> rec.id, pageCount |-> doc.numPages]))
               /\ completed' = [completed EXCEPT ![c.path] =
                                   [ids      |-> @.ids \cup {rec.id},
                                    last     |-> <<c.bytes>>,
                                    replaced |-> @.replaced \/
                                       (MapHas(loadedPDFs, rec.id) /\
                                        MapGet(loadedPDFs, rec.id) # rec)]]
               /\ UNCHANGED source

\* the world: what a location serves changes
SourceChange(path, s) ==
    /\ s \in SourceStates(path)
    /\ source[path] # s
    /\ source' = [source EXCEPT ![path] = s]
    /\ ret' = NoCall
    /\ UNCHANGED <<loadedPDFs, inflight, completed>>

----------------------------------------------------------------------------
(* The lookups: they run to completion without suspending *)

\* x || "" on a page text
OrEmpty(text) == IF text = <<>> THEN <<>> ELSE text

\* extractPage(pdfId, pageNumber)
ExtractPage_offByOne(m, pdfId, pageNumber) ==
    IF ~MapHas(m, pdfId) THEN Err(NotFound)
    ELSE LET pdf == MapGet(m, pdfId) IN
         IF pageNumber < 1 \/ pageNumber >= pdf.pageCount
         THEN Err(InvalidPageNumber(pdf.pageCount))
         ELSE Ok(OrEmpty(pdf.pages[pageNumber]))
ExtractPage_rereads(m, pdfId, pageNumber) ==
    IF ~MapHas(m, pdfId) THEN Err(NotFound)
    ELSE LET pdf == MapGet(m, pdfId) IN
         IF pageNumber < 1 \/ pageNumber > pdf.pageCount
         THEN Err(InvalidPageNumber(pdf.pageCount))
         ELSE IF /\ source[pdf.path] \in PdfBytes
                 /\ pageNumber <= Parse(source[pdf.path]).numPages
              THEN Ok(OrEmpty(PageText(Parse(source[pdf.path]), pageNumber)))
              ELSE Ok(OrEmpty(pdf.pages[pageNumber]))
ExtractPage(m, pdfId, pageNumber) ==
    IF ~MapHas(m, pdfId) THEN Err(NotFound)
    ELSE LET pdf == MapGet(m, pdfId) IN
         IF pageNumber < 1 \/ pageNumber > pdf.pageCount
         THEN Err(InvalidPageNumber(pdf.pageCount))
         ELSE Ok(OrEmpty(pdf.pages[pageNumber]))

\* a number in decimal
RECURSIVE Decimal(_)
Decimal(n) ==
    IF n < 10 THEN <<ToString(n)>>
    ELSE Decimal(n \div 10) \o <<ToString(n % 10)>>

\* `--- Page ${i} ---`
PageMarker(i) ==
    <<"-", "-", "-", " ", "P", "a", "g", "e", " ">> \o Decimal(i)
        \o <<" ", "-", "-", "-">>

\* `--- Page ${i} ---\n${pdf.pages[i - 1] || ""}`
PageBlock(pdf, i) == PageMarker(i) \o <<"\n">> \o OrEmpty(pdf.pages[i])

\* pages.join("\n\n") for the blocks of pages i .. endPage
RECURSIVE JoinBlocks(_, _, _)
JoinBlocks(pdf, i, endPage) ==
    IF i > endPage THEN <<>>
    ELSE IF i = endPage THEN PageBlock(pdf, i)
    ELSE PageBlock(pdf, i) \o <<"\n", "\n">> \o JoinBlocks(pdf, i + 1, endPage)

\* extractRange(pdfId, startPage, endPage)
ExtractRange_noOrderCheck(m, pdfId, startPage, endPage) ==
    IF ~MapHas(m, pdfId) THEN Err(NotFound)
    ELSE LET pdf == MapGet(m, pdfId) IN
         IF startPage < 1 \/ endPage > pdf.pageCount
         THEN Err(InvalidRange(pdf.pageCount))
         ELSE Ok(JoinBlocks(pdf, startPage, endPage))
ExtractRange(m, pdfId, startPage, endPage) ==
    IF ~MapHas(m, pdfId) THEN Err(NotFound)
    ELSE LET pdf == MapGet(m, pdfId) IN
         IF startPage < 1 \/ endPage > pdf.pageCount \/ startPage > endPage
         THEN Err(InvalidRange(pdf.pageCount))
         ELSE Ok(JoinBlocks(pdf, startPage, endPage))

\* getPDFInfo(pdfId)
GetPDFInfo_noMetadata(m, pdfId) ==
    IF ~MapHas(m, pdfId) THEN Err(NotFound)
    ELSE LET pdf == MapGet(m, pdfId) IN
         Ok([id |-> pdf.id, path |-> pdf.path, pageCount |-> pdf.pageCount,
             metadata |-> "null"])
GetPDFInfo(m, pdfId) ==
    IF ~MapHas(m, pdfId) THEN Err(NotFound)
    ELSE LET pdf == MapGet(m, pdfId) IN
         Ok([id |-> pdf.id, path |-> pdf.path, pageCount |-> pdf.pageCount,
             metadata |-> pdf.metadata])

\* listLoadedPDFs(): the Map's values in its order
ListLoadedPDFs(m) ==
    Ok([k \in 1 .. Len(m) |->
          [id |-> m[k].id, path |-> m[k].path, pageCount |-> m[k].pageCount]])

\* extractOutline(pdfId): null (here <<>>) without an outline
ExtractOutline_unchecked(m, pdfId) ==
    IF ~MapHas(m, pdfId) THEN Ok(<<>>)
    ELSE LET pdf == MapGet(m, pdfId) IN
         IF Len(pdf.outline) = 0 THEN Ok(<<>>) ELSE Ok(pdf.outline)
ExtractOutline(m, pdfId) ==
    IF ~MapHas(m, pdfId) THEN Err(NotFound)
    ELSE LET pdf == MapGet(m, pdfId) IN
         IF Len(pdf.outline) = 0 THEN Ok(<<>>) ELSE Ok(pdf.outline)

\* formatOutlineAsText(items, indent): a line per item, as its parts
RECURSIVE FormatOutlineAsText(_, _)
FormatOutlineAsText(items, indent) ==
    IF items = <<>> THEN <<>>
    ELSE LET item == Head(items)
             pageInfo == IF item.page = {} THEN <<>>
                         ELSE <<" (Page ", ToString(CHOOSE n \in item.page : TRUE), ")">>
             line == indent \o <<item.title>> \o pageInfo \o <<"\n">>
             below == IF Len(item.children) > 0
                      THEN FormatOutlineAsText(item.children, indent \o <<"  ">>)
                      ELSE <<>>
         IN line \o below \o FormatOutlineAsText(Tail(items), indent)

\* getFormattedOutline(pdfId)
GetFormattedOutline(m, pdfId) ==
    LET outline == ExtractOutline(m, pdfId) IN
    IF ~outline.ok THEN outline
    ELSE IF outline.value = <<>> THEN Ok(<<"No outline/TOC found in this PDF.">>)
    ELSE Ok(FormatOutlineAsText(outline.value, <<>>))

----------------------------------------------------------------------------
(* searchPDF.  Positions are 0-based as in the source: the character at    *)
(* position i of text is text[i + 1].                                      *)

\* the characters of context kept on each side of a match
ContextRadius == 50

Min(a, b) == IF a < b THEN a ELSE b
Max(a, b) == IF a > b THEN a ELSE b

\* String.prototype.substring(from, to) for 0 <= from
Substring(text, from, to) ==
    LET hi == Min(to, Len(text)) IN
    IF from >= hi THEN <<>> ELSE SubSeq(text, from + 1, hi)

\* one character of String.prototype.toLowerCase
LowerChar(ch) ==
    CASE ch = "A" -> "a" [] ch = "B" -> "b" [] ch = "C" -> "c" [] ch = "D" -> "d"
      [] ch = "E" -> "e" [] ch = "F" -> "f" [] ch = "G" -> "g" [] ch = "H" -> "h"
      [] ch = "I" -> "i" [] ch = "J" -> "j" [] ch = "K" -> "k" [] ch = "L" -> "l"
      [] ch = "M" -> "m" [] ch = "N" -> "n" [] ch = "O" -> "o" [] ch = "P" -> "p"
      [] ch = "Q" -> "q" [] ch = "R" -> "r" [] ch = "S" -> "s" [] ch = "T" -> "t"
      [] ch = "U" -> "u" [] ch = "V" -> "v" [] ch = "W" -> "w" [] ch = "X" -> "x"
      [] ch = "Y" -> "y" [] ch = "Z" -> "z" [] OTHER -> ch

\* the code units whose names stand for them: capital I with dot above,
\* whose lower case is two code units long, and the combining dot above
CapitalIDot == "U+0130"
CombiningDot == "U+0307"

LowerUnits(ch) == IF ch = CapitalIDot THEN <<"i", CombiningDot>> ELSE <<LowerChar(ch)>>

\* String.prototype.toLowerCase
RECURSIVE ToLowerCase(_)
ToLowerCase(text) ==
    IF text = <<>> THEN <<>>
    ELSE IF Len(text) = 1 THEN LowerUnits(text[1])
    ELSE LET half == Len(text) \div 2 IN
         ToLowerCase(SubSeq(text, 1, half))
            \o ToLowerCase(SubSeq(text, half + 1, Len(text)))

IsSpace(ch) == ch \in {" ", "\n", "\t", "\r"}

\* String.prototype.trim
Trim(text) ==
    LET keep == {k \in 1 .. Len(text) : ~IsSpace(text[k])} IN
    IF keep = {} THEN <<>>
    ELSE SubSeq(text, CHOOSE k \in keep : \A j \in keep : k <= j,
                      CHOOSE k \in keep : \A j \in keep : k >= j)

\* whether needle occurs in text at position pos
OccursAt(text, needle, pos) ==
    /\ pos + Len(needle) <= Len(text)
    /\ \A k \in 1 .. Len(needle) : text[pos + k] = needle[k]

\* String.prototype.indexOf(needle, from): -1 when there is none
IndexOf(text, needle, from) ==
    LET hits == {pos \in Min(from, Len(text)) .. Len(text) : OccursAt(text, needle, pos)} IN
    IF hits = {} THEN -1 ELSE CHOOSE pos \in hits : \A q \in hits : pos <= q

\* the match record of both modes: the matched text and its context
MatchRecord(pageText, position, matchedText, matchLength) ==
    LET contextStart == Max(0, position - ContextRadius)
        contextEnd == Min(Len(pageText), position + matchLength + ContextRadius)
    IN [text |-> matchedText,
        context |-> Trim(Substring(pageText, contextStart, contextEnd))]

\* the while loop of plain mode on one page, for a non-empty searchQuery
RECURSIVE PlainMatches(_, _, _, _, _)
PlainMatches(pageText, searchText, searchQuery, queryLength, from) ==
    LET position == IndexOf(searchText, searchQuery, from) IN
    IF position = -1 THEN <<>>
    ELSE <<MatchRecord(pageText, position,
                       Substring(pageText, position, position + queryLength),
                       Len(searchQuery))>>
         \o PlainMatches(pageText, searchText, searchQuery, queryLength,
                         position + Len(searchQuery))

\* A regular expression of the subset modelled: alternatives separated by
\* "|", each a sequence of characters, a character followed by "*" being
\* repeated.  "[" opens a class, which this subset never closes.
IsMalformed_never(query) == FALSE
IsMalformed(query) == \E k \in 1 .. Len(query) : query[k] = "["

\* the atoms of one alternative: [ch, star]
RECURSIVE Atoms(_)
Atoms(alt) ==
    IF alt = <<>> THEN <<>>
    ELSE IF Len(alt) >= 2 /\ alt[2] = "*"
         THEN <<[ch |-> alt[1], star |-> TRUE]>> \o Atoms(SubSeq(alt, 3, Len(alt)))
         ELSE <<[ch |-> alt[1], star |-> FALSE]>> \o Atoms(Tail(alt))

\* the alternatives of a pattern, in order
RECURSIVE Alternatives(_, _)
Alternatives(query, current) ==
    IF query = <<>> THEN <<Atoms(current)>>
    ELSE IF Head(query) = "|"
         THEN <<Atoms(current)>> \o Alternatives(Tail(query), <<>>)
         ELSE Alternatives(Tail(query), Append(current, Head(query)))

CharMatches(a, ch, ignoreCase) ==
    IF ignoreCase THEN LowerChar(a) = LowerChar(ch) ELSE a = ch

\* how many times the character repeats in text from position pos
RECURSIVE RunLength(_, _, _, _)
RunLength(text, pos, a, ignoreCase) ==
    IF pos < Len(text) /\ CharMatches(a, text[pos + 1], ignoreCase)
    THEN 1 + RunLength(text, pos + 1, a, ignoreCase)
    ELSE 0

\* the end positions at which the atoms can match from pos, in the order
\* the backtracking matcher tries them (a repetition longest first)
RECURSIVE MatchAtoms(_, _, _, _)
RECURSIVE MatchStar(_, _, _, _, _)
MatchStar(atoms, text, pos, count, ignoreCase) ==
    MatchAtoms(atoms, text, pos + count, ignoreCase)
      \o (IF count = 0 THEN <<>> ELSE MatchStar(atoms, text, pos, count - 1, ignoreCase))
MatchAtoms(atoms, text, pos, ignoreCase) ==
    IF atoms = <<>> THEN <<pos>>
    ELSE LET a == Head(atoms) IN
         IF a.star
         THEN MatchStar(Tail(atoms), text, pos,
                        RunLength(text, pos, a.ch, ignoreCase), ignoreCase)
         ELSE IF pos < Len(text) /\ CharMatches(a.ch, text[pos + 1], ignoreCase)
              THEN MatchAtoms(Tail(atoms), text, pos + 1, ignoreCase)
              ELSE <<>>

\* the first alternative that matches at pos: <<end>>, or <<>>
RECURSIVE MatchAlternatives(_, _, _, _)
MatchAlternatives(alts, text, pos, ignoreCase) ==
    IF alts = <<>> THEN <<>>
    ELSE LET ends == MatchAtoms(Head(alts), text, pos, ignoreCase) IN
         IF ends # <<>> THEN <<Head(ends)>>
         ELSE MatchAlternatives(Tail(alts), text, pos, ignoreCase)

\* RegExp.prototype.exec with the g flag from lastIndex: <<index, end>> of
\* the leftmost match, or <<>> for null
Exec(alts, text, lastIndex, ignoreCase) ==
    LET starts == {pos \in lastIndex .. Len(text) :
                     MatchAlternatives(alts, text, pos, ignoreCase) # <<>>}
    IN IF starts = {} THEN <<>>
       ELSE LET index == CHOOSE pos \in starts : \A q \in starts : pos <= q IN
            <<index, MatchAlternatives(alts, text, index, ignoreCase)[1]>>

\* regexPattern.lastIndex at the end of an iteration: exec has left it at the
\* end of the match, and after a zero-width match it is moved on by one
AdvanceLastIndex_noForce(match) == match[2]
AdvanceLastIndex(match) ==
    IF match[1] = match[2] THEN match[2] + 1 ELSE match[2]

\* the while loop of regex mode on one page; after a zero-width match
\* lastIndex is moved on by one
RECURSIVE RegexMatches(_, _, _, _)
RegexMatches(alts, pageText, lastIndex, ignoreCase) ==
    LET match == Exec(alts, pageText, lastIndex, ignoreCase) IN
    IF match = <<>> THEN <<>>
    ELSE LET position == match[1]
             matchedText == Substring(pageText, match[1], match[2])
             next == AdvanceLastIndex(match)
         IN <<MatchRecord(pageText, position, matchedText, Len(matchedText))>>
            \o RegexMatches(alts, pageText, next, ignoreCase)

RECURSIVE SearchPages_everyPage(_, _, _, _, _)
SearchPages_everyPage(pages, index, query, caseSensitive, regex) ==
    IF index > Len(pages) THEN <<>>
    ELSE LET pageText == pages[index]
             matches ==
                 IF regex
                 THEN RegexMatches(Alternatives(query, <<>>), pageText, 0, ~caseSensitive)
                 ELSE PlainMatches(pageText,
                                   IF caseSensitive THEN pageText ELSE ToLowerCase(pageText),
                                   IF caseSensitive THEN query ELSE ToLowerCase(query),
                                   Len(query), 0)
         IN <<[page |-> index, matches |-> matches]>>
            \o SearchPages_everyPage(pages, index + 1, query, caseSensitive, regex)

\* pdf.pages.forEach: a result for every page with at least one match
RECURSIVE SearchPages(_, _, _, _, _)
SearchPages(pages, index, query, caseSensitive, regex) ==
    IF index > Len(pages) THEN <<>>
    ELSE LET pageText == pages[index]
             matches ==
                 IF regex
                 THEN RegexMatches(Alternatives(query, <<>>), pageText, 0, ~caseSensitive)
                 ELSE PlainMatches(pageText,
                                   IF caseSensitive THEN pageText ELSE ToLowerCase(pageText),
                                   IF caseSensitive THEN query ELSE ToLowerCase(query),
                                   Len(query), 0)
         IN (IF Len(matches) > 0 THEN <<[page |-> index, matches |-> matches]>> ELSE <<>>)
            \o SearchPages(pages, index + 1, query, caseSensitive, regex)

\* searchPDF(pdfId, query, caseSensitive, regex), for a query that is not
\* the empty string in plain mode
SearchPDF(m, pdfId, query, caseSensitive, regex) ==
    IF ~MapHas(m, pdfId) THEN Err(NotFound)
    ELSE IF regex /\ IsMalformed(query)
         THEN Err(<<"Invalid regular expression: ">> \o query)
         ELSE Ok(SearchPages(MapGet(m, pdfId).pages, 1, query, caseSensitive, regex))

\* the queries of the model
Queries ==
    { <<"h", "e", "l", "l", "o">>,
      <<"H", "e", "l", "l", "o", "|", "W", "o", "r", "l", "d">>,
      <<"x", "*">>,
      <<"U+0130">>,
      <<"[">> }

\* a lookup settles in the step that calls it and changes nothing
Lookup_forgets(op, args, out) ==
    /\ ret' = Settled(op, args, "call", out)
    /\ loadedPDFs' = IF loadedPDFs = <<>> THEN <<>> ELSE Tail(loadedPDFs)
    /\ UNCHANGED <<source, inflight, completed>>
Lookup(op, args, out) ==
    /\ ret' = Settled(op, args, "call", out)
    /\ UNCHANGED <<source, loadedPDFs, inflight, completed>>

CallExtractPage(pdfId, pageNumber) ==
    Lookup("extractPage", [pdfId |-> pdfId, pageNumber |-> pageNumber],
           ExtractPage(loadedPDFs, pdfId, pageNumber))

CallExtractRange(pdfId, startPage, endPage) ==
    Lookup("extractRange",
           [pdfId |-> pdfId, startPage |-> startPage, endPage |-> endPage],
           ExtractRange(loadedPDFs, pdfId, startPage, endPage))

CallGetPDFInfo(pdfId) ==
    Lookup("getPDFInfo", [pdfId |-> pdfId], GetPDFInfo(loadedPDFs, pdfId))

CallListLoadedPDFs ==
    Lookup("listLoadedPDFs", <<>>, ListLoadedPDFs(loadedPDFs))

CallSearchPDF(pdfId, query, caseSensitive, regex) ==
    Lookup("searchPDF",
           [pdfId |-> pdfId, query |-> query, caseSensitive |-> caseSensitive,
            regex |-> regex],
           SearchPDF(loadedPDFs, pdfId, query, caseSensitive, regex))

CallExtractOutline(pdfId) ==
    Lookup("extractOutline", [pdfId |-> pdfId], ExtractOutline(loadedPDFs, pdfId))

CallGetFormattedOutline(pdfId) ==
    Lookup("getFormattedOutline", [pdfId |-> pdfId],
           GetFormattedOutline(loadedPDFs, pdfId))

----------------------------------------------------------------------------
(* Images and rendering: the values computed from the re-opened document *)

\* the PDF coordinate space has 72 units to the inch
PointsPerInch == 72

\* Math.round(points * (dpi / 72)), for sizes that are not negative
Scaled_wholeScale(points, dpi) == points * (dpi \div PointsPerInch)
Scaled(points, dpi) == (2 * points * dpi + PointsPerInch) \div (2 * PointsPerInch)

\* canvas.toBuffer: the signature of the format, then the raster
PngSignature == <<137, 80>>
JpegSignature == <<255, 216>>
Encode(raster, format) ==
    (IF format = "jpeg" THEN JpegSignature ELSE PngSignature) \o raster

\* the raster painted for a page at a size
PageRaster(page, width, height) == <<page.ref.num, width, height>>

\* Buffer.toString('base64'): the bytes in their transport encoding
Base64(data) == [encoding |-> "base64", bytes |-> data]

\* convertRawImageToPNG: a zeroed width * height * 4 buffer, filled by the
\* kind of the image (a write past the end of the buffer is dropped)
ConvertRawImageToPNG(imageObj) ==
    LET size == imageObj.width * imageObj.height * 4
        data == imageObj.data
        rgba == [j \in 0 .. size - 1 |->
                   IF imageObj.kind = 1
                   THEN IF j < Len(data) THEN data[j + 1] ELSE 0
                   ELSE IF imageObj.kind = 2
                   THEN IF j \div 4 < Len(data)
                        THEN IF j % 4 = 3 THEN 255 ELSE data[(j \div 4) + 1]
                        ELSE 0
                   ELSE 0]
    IN Encode([k \in 1 .. size |-> rgba[k - 1]], "png")

IsImageOp(fn) == fn \in {PaintImageXObject, PaintJpegXObject, PaintImageMaskXObject}

\* the embedded images of a page: the loop over ops.fnArray from index i
RECURSIVE EmbeddedImages_indexByOp(_, _, _, _)
EmbeddedImages_indexByOp(page, pageNum, i, images) ==
    IF i > Len(page.ops) THEN images
    ELSE LET op == page.ops[i]
             imageObj == page.objs[op.arg]
             data == imageObj.data
             found ==
                 IF ~IsImageOp(op.fn) \/ imageObj.getFails \/ Len(data) = 0 THEN <<>>
                 ELSE IF Len(data) >= 2 /\ data[1] = 255 /\ data[2] = 216
                      THEN <<[format |-> "jpeg", data |-> data]>>
                 ELSE IF Len(data) >= 2 /\ data[1] = 137 /\ data[2] = 80
                      THEN <<[format |-> "png", data |-> data]>>
                 ELSE IF imageObj.width # 0 /\ imageObj.height # 0
                      THEN <<[format |-> "png", data |-> ConvertRawImageToPNG(imageObj)]>>
                 ELSE <<>>
         IN EmbeddedImages_indexByOp(page, pageNum, i + 1,
               IF found = <<>> THEN images
               ELSE Append(images,
                      [page |-> pageNum, index |-> i - 1,
                       width |-> imageObj.width, height |-> imageObj.height,
                       format |-> found[1].format, data |-> found[1].data]))
RECURSIVE EmbeddedImages_firstByteOnly(_, _, _, _)
EmbeddedImages_firstByteOnly(page, pageNum, i, images) ==
    IF i > Len(page.ops) THEN images
    ELSE LET op == page.ops[i]
             imageObj == page.objs[op.arg]
             data == imageObj.data
             found ==
                 IF ~IsImageOp(op.fn) \/ imageObj.getFails \/ Len(data) = 0 THEN <<>>
                 ELSE IF data[1] = 255
                      THEN <<[format |-> "jpeg", data |-> data]>>
                 ELSE IF data[1] = 137
                      THEN <<[format |-> "png", data |-> data]>>
                 ELSE IF imageObj.width # 0 /\ imageObj.height # 0
                      THEN <<[format |-> "png", data |-> ConvertRawImageToPNG(imageObj)]>>
                 ELSE <<>>
         IN EmbeddedImages_firstByteOnly(page, pageNum, i + 1,
               IF found = <<>> THEN images
               ELSE Append(images,
                      [page |-> pageNum, index |-> Len(images),
                       width |-> imageObj.width, height |-> imageObj.height,
                       format |-> found[1].format, data |-> found[1].data]))
RECURSIVE EmbeddedImages(_, _, _, _)
EmbeddedImages(page, pageNum, i, images) ==
    IF i > Len(page.ops) THEN images
    ELSE LET op == page.ops[i]
             imageObj == page.objs[op.arg]
             data == imageObj.data
             found ==
                 IF ~IsImageOp(op.fn) \/ imageObj.getFails \/ Len(data) = 0 THEN <<>>
                 ELSE IF Len(data) >= 2 /\ data[1] = 255 /\ data[2] = 216
                      THEN <<[format |-> "jpeg", data |-> data]>>
                 ELSE IF Len(data) >= 2 /\ data[1] = 137 /\ data[2] = 80
                      THEN <<[format |-> "png", data |-> data]>>
                 ELSE IF imageObj.width # 0 /\ imageObj.height # 0
                      THEN <<[format |-> "png", data |-> ConvertRawImageToPNG(imageObj)]>>
                 ELSE <<>>
         IN EmbeddedImages(page, pageNum, i + 1,
               IF found = <<>> THEN images
               ELSE Append(images,
                      [page |-> pageNum, index |-> Len(images),
                       width |-> imageObj.width, height |-> imageObj.height,
                       format |-> found[1].format, data |-> found[1].data]))

\* extractImagesFromPage(page, pageNum, dpi): the embedded images, or,
\* when there are none and dpi > 0, the page itself painted at that dpi
\* (nothing when painting fails)
ExtractImagesFromPage_alwaysPaints(page, pageNum, dpi) ==
    LET images == EmbeddedImages(page, pageNum, 1, <<>>)
        width == Scaled(page.width, dpi)
        height == Scaled(page.height, dpi)
    IN IF dpi > 0 /\ ~page.renderFails
       THEN Append(images,
              [page |-> pageNum, index |-> Len(images), width |-> width,
               height |-> height, format |-> "png",
               data |-> Encode(PageRaster(page, width, height), "png")])
       ELSE images
ExtractImagesFromPage(page, pageNum, dpi) ==
    LET images == EmbeddedImages(page, pageNum, 1, <<>>)
        width == Scaled(page.width, dpi)
        height == Scaled(page.height, dpi)
    IN IF Len(images) = 0 /\ dpi > 0 /\ ~page.renderFails
       THEN <<[page |-> pageNum, index |-> 0, width |-> width, height |-> height,
               format |-> "png",
               data |-> Encode(PageRaster(page, width, height), "png")]>>
       ELSE images

\* the loop of listImages over all pages from pageNum
RECURSIVE ListImagesFrom(_, _)
ListImagesFrom(doc, pageNum) ==
    IF pageNum > doc.numPages THEN <<>>
    ELSE ExtractImagesFromPage(doc.pages[pageNum], pageNum, 0)
           \o ListImagesFrom(doc, pageNum + 1)

\* An optional pageNumbers argument
Absent == [given |-> FALSE, list |-> <<>>]
Given(list) == [given |-> TRUE, list |-> list]
OneTo(n) == [k \in 1 .. n |-> k]

ToExtracted(imgInfo) ==
    [page |-> imgInfo.page, index |-> imgInfo.index, width |-> imgInfo.width,
     height |-> imgInfo.height, format |-> imgInfo.format,
     base64 |-> Base64(imgInfo.data)]

\* the loop of extractImages over pagesToProcess
RECURSIVE ExtractImagesFrom(_, _, _)
ExtractImagesFrom(doc, pagesToProcess, dpi) ==
    IF pagesToProcess = <<>> THEN <<>>
    ELSE LET pageNum == Head(pagesToProcess)
             pageImages == IF pageNum < 1 \/ pageNum > doc.numPages THEN <<>>
                           ELSE ExtractImagesFromPage(doc.pages[pageNum], pageNum, dpi)
         IN [k \in 1 .. Len(pageImages) |-> ToExtracted(pageImages[k])]
              \o ExtractImagesFrom(doc, Tail(pagesToProcess), dpi)

\* extractImages on the re-opened document
ExtractImages(doc, pageNumbers, dpi) ==
    ExtractImagesFrom(doc,
        IF pageNumbers.given THEN pageNumbers.list ELSE OneTo(doc.numPages), dpi)

\* extractImage: images.find(...) || null, null being <<>>
ExtractImage(doc, pageNumber, imageIndex, dpi) ==
    LET images == ExtractImages(doc, Given(<<pageNumber>>), dpi)
        hits == {k \in 1 .. Len(images) :
                    images[k].page = pageNumber /\ images[k].index = imageIndex}
    IN IF hits = {} THEN <<>>
       ELSE <<images[CHOOSE k \in hits : \A j \in hits : k <= j]>>

\* the try block of renderPage on the re-opened document: <<>> when
\* getPage or the painting throws
RenderOnDoc_unscaled(doc, pageNumber, dpi, format) ==
    IF pageNumber > doc.numPages \/ doc.pages[pageNumber].renderFails THEN <<>>
    ELSE LET page == doc.pages[pageNumber]
         IN <<[page |-> pageNumber, width |-> page.width, height |-> page.height,
               format |-> format,
               base64 |-> Base64(Encode(PageRaster(page, page.width, page.height),
                                        format)),
               dpi |-> dpi]>>
RenderOnDoc(doc, pageNumber, dpi, format) ==
    IF pageNumber > doc.numPages \/ doc.pages[pageNumber].renderFails THEN <<>>
    ELSE LET page == doc.pages[pageNumber]
             width == Scaled(page.width, dpi)
             height == Scaled(page.height, dpi)
         IN <<[page |-> pageNumber, width |-> width, height |-> height,
               format |-> format,
               base64 |-> Base64(Encode(PageRaster(page, width, height), format)),
               dpi |-> dpi]>>

----------------------------------------------------------------------------
(* The operations that re-open the source.  Each looks its record up when  *)
(* called, then awaits the bytes of pdf.path (fetch without a status check *)
(* or readFile), then getDocument and the work on the document.            *)

ReopenKinds == {"listImages", "extractImages", "extractImage", "renderPage"}

SettleNow(op, args, out) ==
    /\ ret' = Settled(op, args, "call", out)
    /\ UNCHANGED <<source, loadedPDFs, inflight, completed>>

Reopen(op, args, path) ==
    /\ CanCall
    /\ inflight' = Spawn([kind |-> op, args |-> args, path |-> path,
                          pc |-> "fetch", bytes |-> ""])
    /\ ret' = NoCall
    /\ UNCHANGED <<source, loadedPDFs, completed>>

CallListImages(pdfId) ==
    LET args == [pdfId |-> pdfId] IN
    IF ~MapHas(loadedPDFs, pdfId) THEN SettleNow("listImages", args, Err(NotFound))
    ELSE Reopen("listImages", args, MapGet(loadedPDFs, pdfId).path)

CallExtractImages(pdfId, pageNumbers, dpi) ==
    LET args == [pdfId |-> pdfId, pageNumbers |-> pageNumbers, dpi |-> dpi] IN
    IF ~MapHas(loadedPDFs, pdfId) THEN SettleNow("extractImages", args, Err(NotFound))
    ELSE Reopen("extractImages", args, MapGet(loadedPDFs, pdfId).path)

CallExtractImage(pdfId, pageNumber, imageIndex, dpi) ==
    LET args == [pdfId |-> pdfId, pageNumber |-> pageNumber,
                 imageIndex |-> imageIndex, dpi |-> dpi] IN
    IF ~MapHas(loadedPDFs, pdfId) THEN SettleNow("extractImage", args, Err(NotFound))
    ELSE Reopen("extractImage", args, MapGet(loadedPDFs, pdfId).path)

\* the checks renderPage makes before it re-opens the source: <<>> when
\* they pass, else the error thrown
RenderPageChecks_noUpperBound(m, pdfId, pageNumber) ==
    IF ~MapHas(m, pdfId) THEN <<NotFound>>
    ELSE IF pageNumber < 1
         THEN <<InvalidPageNumber(MapGet(m, pdfId).pageCount)>>
         ELSE <<>>
RenderPageChecks(m, pdfId, pageNumber) ==
    IF ~MapHas(m, pdfId) THEN <<NotFound>>
    ELSE IF pageNumber < 1 \/ pageNumber > MapGet(m, pdfId).pageCount
         THEN <<InvalidPageNumber(MapGet(m, pdfId).pageCount)>>
         ELSE <<>>

CallRenderPage(pdfId, pageNumber, dpi, format) ==
    LET args == [pdfId |-> pdfId, pageNumber |-> pageNumber, dpi |-> dpi,
                 format |-> format]
        thrown == RenderPageChecks(loadedPDFs, pdfId, pageNumber)
    IN IF thrown # <<>> THEN SettleNow("renderPage", args, Err(thrown[1]))
       ELSE Reopen("renderPage", args, MapGet(loadedPDFs, pdfId).path)

\* the bytes a re-opening fetch or readFile yields: the body of a non-2xx
\* response is taken like any other body
ReopenedBytes(s) == IF s = "http404" THEN "garbage" ELSE s

\* fetch / readFile settles; a rejection leaves the call as it is
ReopenFetched(c) ==
    /\ c.kind \in ReopenKinds /\ c.pc = "fetch"
    /\ \/ /\ source[c.path] = "missing"
          /\ \E cause \in CauseMessages :
                ret' = Settled(c.kind, c.args, "fetch", Err(cause))
          /\ inflight' = Settle(c)
       \/ /\ source[c.path] # "missing"
          /\ inflight' = Resume(c, [c EXCEPT !.pc = "open",
                                             !.bytes = ReopenedBytes(source[c.path])])
          /\ ret' = NoCall
    /\ UNCHANGED <<source, loadedPDFs, completed>>

\* what the call returns from the opened document: <<value>>, or <<>> when
\* it throws
ReopenResult(c, doc) ==
    CASE c.kind = "listImages" -> <<ListImagesFrom(doc, 1)>>
      [] c.kind = "extractImages" ->
           <<ExtractImages(doc, c.args.pageNumbers, c.args.dpi)>>
      [] c.kind = "extractImage" ->
           <<ExtractImage(doc, c.args.pageNumber, c.args.imageIndex, c.args.dpi)>>
      [] c.kind = "renderPage" ->
           RenderOnDoc(doc, c.args.pageNumber, c.args.dpi, c.args.format)

\* getDocument settles and the call runs on the document to its end
ReopenOpened(c) ==
    /\ c.kind \in ReopenKinds /\ c.pc = "open"
    /\ inflight' = Settle(c)
    /\ LET result == IF c.bytes \in PdfBytes THEN ReopenResult(c, Parse(c.bytes))
                     ELSE <<>>
       IN IF result = <<>>
          THEN \E cause \in CauseMessages :
                  ret' = Settled(c.kind, c.args, "open", Err(cause))
          ELSE ret' = Settled(c.kind, c.args, "done", Ok(result[1]))
    /\ UNCHANGED <<source, loadedPDFs, completed>>

\* renderPages: the entries of the loop that are passed over without an
\* await: those outside 1 .. pageCount of the record looked up by
\* renderPages, and those the renderPage call refuses at once
RECURSIVE SkipRefused_noUpperBound(_, _, _, _)
SkipRefused_noUpperBound(m, pdfId, pageCount, todo) ==
    IF todo = <<>> THEN <<>>
    ELSE IF Head(todo) >= 1 THEN todo
         ELSE SkipRefused_noUpperBound(m, pdfId, pageCount, Tail(todo))
RECURSIVE SkipRefused(_, _, _, _)
SkipRefused(m, pdfId, pageCount, todo) ==
    IF todo = <<>> THEN <<>>
    ELSE IF /\ Head(todo) >= 1 /\ Head(todo) <= pageCount
            /\ RenderPageChecks(m, pdfId, Head(todo)) = <<>>
         THEN todo
         ELSE SkipRefused(m, pdfId, pageCount, Tail(todo))

\* the pages renderPages loops over
PagesOf(pageNumbers, pageCount) ==
    IF pageNumbers.given THEN pageNumbers.list ELSE OneTo(pageCount)

CallRenderPages(pdfId, pageNumbers, dpi, format) ==
    LET args == [pdfId |-> pdfId, pageNumbers |-> pageNumbers, dpi |-> dpi,
                 format |-> format] IN
    IF ~MapHas(loadedPDFs, pdfId) THEN SettleNow("renderPages", args, Err(NotFound))
    ELSE LET pdf == MapGet(loadedPDFs, pdfId)
             pages == PagesOf(pageNumbers, pdf.pageCount)
             todo == SkipRefused(loadedPDFs, pdfId, pdf.pageCount, pages)
         IN IF todo = <<>>
            THEN /\ ret' = [op |-> "renderPages", args |-> args, stage |-> "call",
                            out |-> Ok(<<>>), threw |-> {}]
                 /\ UNCHANGED <<source, loadedPDFs, inflight, completed>>
            ELSE /\ CanCall
                 /\ inflight' = Spawn([kind |-> "renderPages", args |-> args,
                                       path |-> pdf.path, pageCount |-> pdf.pageCount,
                                       todo |-> todo, rendered |-> <<>>,
                                       threw |-> {},
                                       pc |-> "fetch", bytes |-> ""])
                 /\ ret' = NoCall
                 /\ UNCHANGED <<source, loadedPDFs, completed>>

\* the loop goes on after the page at the head of todo: to the await of
\* the next page rendered, or to the return.  threw keeps the positions in
\* the list of the entries whose renderPage call was caught throwing
\* (history).
RenderPagesGoesOn(c, rendered) ==
    LET todo == SkipRefused(loadedPDFs, c.args.pdfId, c.pageCount, Tail(c.todo))
        at == Len(PagesOf(c.args.pageNumbers, c.pageCount)) - Len(c.todo) + 1
        threw == IF rendered = c.rendered THEN c.threw \cup {at} ELSE c.threw
    IN
    /\ IF todo = <<>>
       THEN /\ inflight' = Settle(c)
            /\ ret' = [op |-> "renderPages", args |-> c.args, stage |-> "done",
                       out |-> Ok(rendered), threw |-> threw]
       ELSE /\ inflight' = Resume(c, [c EXCEPT !.todo = todo, !.rendered = rendered,
                                               !.threw = threw,
                                               !.pc = "fetch", !.bytes = ""])
            /\ ret' = NoCall
    /\ UNCHANGED <<source, loadedPDFs, completed>>

\* the fetch / readFile of the page being rendered settles; its rejection
\* is caught by the loop and the page left out
RenderPagesFetched(c) ==
    /\ c.kind = "renderPages" /\ c.pc = "fetch"
    /\ IF source[c.path] = "missing"
       THEN RenderPagesGoesOn(c, c.rendered)
       ELSE /\ inflight' = Resume(c, [c EXCEPT !.pc = "open",
                                               !.bytes = ReopenedBytes(source[c.path])])
            /\ ret' = NoCall
            /\ UNCHANGED <<source, loadedPDFs, completed>>

\* getDocument of the page being rendered settles and the page is painted,
\* or the failure is caught by the loop and the page left out
RenderPagesOpened(c) ==
    /\ c.kind = "renderPages" /\ c.pc = "open"
    /\ LET page == IF c.bytes \in PdfBytes
                   THEN RenderOnDoc(Parse(c.bytes), Head(c.todo), c.args.dpi,
                                    c.args.format)
                   ELSE <<>>
       IN RenderPagesGoesOn(c, c.rendered \o page)

\* the arguments of the model
DpiArgs == {0, 96, 150}
RenderDpiArgs == {96, 192}
FormatArgs == {"png", "jpeg"}
PageListArgs ==
    {Absent, Given(<<>>), Given(<<1, 4, 0>>), Given(<<2, 1>>), Given(<<1, 1>>)}
ImageIndexArgs == {0, 3}

----------------------------------------------------------------------------
(* searchPDF followed through its loops: the call in progress is a frame   *)
(* of its locals (the page it is on, the scan position, the matches of the *)
(* page, the results so far), and a step is one iteration of a while loop. *)

\* the call up to the first iteration
ScanStart(pdfId, query, caseSensitive, regex) ==
    LET args == [pdfId |-> pdfId, query |-> query,
                 caseSensitive |-> caseSensitive, regex |-> regex] IN
    IF ~MapHas(loadedPDFs, pdfId) THEN SettleNow("searchPDF", args, Err(NotFound))
    ELSE IF regex /\ IsMalformed(query)
         THEN SettleNow("searchPDF", args,
                        Err(<<"Invalid regular expression: ">> \o query))
         ELSE /\ inflight' = Spawn([kind |-> "searchPDF", args |-> args,
                                    pages |-> MapGet(loadedPDFs, pdfId).pages,
                                    index |-> 1, position |-> 0,
                                    matches |-> <<>>, results |-> <<>>])
              /\ ret' = NoCall
              /\ UNCHANGED <<source, loadedPDFs, completed>>

\* the loop of a page has ended: its result is pushed if it has matches,
\* and forEach goes to the next page
ScanPageDone(c) ==
    /\ inflight' = Resume(c, [c EXCEPT
           !.index = @ + 1, !.position = 0, !.matches = <<>>,
           !.results = IF Len(c.matches) > 0
                       THEN Append(@, [page |-> c.index, matches |-> c.matches])
                       ELSE @])
    /\ ret' = NoCall
    /\ UNCHANGED <<source, loadedPDFs, completed>>

ScanPush(c, record, position) ==
    /\ Len(c.matches) < MaxMatches
    /\ inflight' = Resume(c, [c EXCEPT !.matches = Append(@, record),
                                       !.position = position])
    /\ ret' = NoCall
    /\ UNCHANGED <<source, loadedPDFs, completed>>

\* one evaluation of the condition of the regex loop, and its body (the
\* locals are bound by \E, which computes each of them once)
ScanRegexStep(c) ==
    /\ c.kind = "searchPDF" /\ c.args.regex /\ c.index <= Len(c.pages)
    /\ \E pageText \in {c.pages[c.index]} :
       \E regexPattern \in {Alternatives(c.args.query, <<>>)} :
       \E match \in {Exec(regexPattern, pageText, c.position,
                          ~c.args.caseSensitive)} :
          IF match = <<>> THEN ScanPageDone(c)
          ELSE ScanPush(c, MatchRecord(pageText, match[1],
                                       Substring(pageText, match[1], match[2]),
                                       match[2] - match[1]),
                        AdvanceLastIndex(match))

\* one evaluation of the condition of the plain loop, and its body
ScanPlainStep(c) ==
    /\ c.kind = "searchPDF" /\ ~c.args.regex /\ c.index <= Len(c.pages)
    /\ \E pageText \in {c.pages[c.index]} :
       \E searchQuery \in {IF c.args.caseSensitive THEN c.args.query
                            ELSE ToLowerCase(c.args.query)} :
       \E searchText \in {IF c.args.caseSensitive THEN pageText
                           ELSE ToLowerCase(pageText)} :
       \E position \in {IndexOf(searchText, searchQuery, c.position)} :
          IF position = -1 THEN ScanPageDone(c)
          ELSE ScanPush(c, MatchRecord(pageText, position,
                                       Substring(pageText, position,
                                                 position + Len(c.args.query)),
                                       Len(searchQuery)),
                        position + Len(searchQuery))

\* return results
ScanReturn(c) ==
    /\ c.kind = "searchPDF" /\ c.index > Len(c.pages)
    /\ inflight' = Settle(c)
    /\ ret' = Settled("searchPDF", c.args, "done", Ok(c.results))
    /\ UNCHANGED <<source, loadedPDFs, completed>>

----------------------------------------------------------------------------
(* The tool call boundary: the request handler awaits one operation inside *)
(* a try block and answers with one text.                                  *)

UnknownTool(name) == <<"Unknown tool: ", name>>
ImageNotFound(pageNumber, imageIndex) ==
    <<"Image not found on page ", ToString(pageNumber), " at index ",
      ToString(imageIndex)>>

\* the default case of the switch: the handler itself throws, inside the try
CallUnknownTool(name) == SettleNow(name, <<>>, Err(UnknownTool(name)))

\* The try block for the operation that settled as r (without outputPath):
\* the text returned, or the error thrown in it.  A rejection of the awaited
\* operation is thrown on; JSON.stringify(v, null, 2) is kept as <<"JSON", v>>.
HandlerTry(r) ==
    IF ~r.out.ok THEN Err(r.out.error)
    ELSE CASE r.op = "loadPDF" ->
                Ok(<<"PDF loaded successfully. ID: ", r.out.value.id, ", Pages: ",
                     ToString(r.out.value.pageCount)>>)
           [] r.op \in {"extractPage", "extractRange", "getFormattedOutline"} ->
                Ok(r.out.value)
           [] r.op = "listImages" ->
                Ok(<<"JSON", [k \in 1 .. Len(r.out.value) |->
                                [page   |-> r.out.value[k].page,
                                 index  |-> r.out.value[k].index,
                                 width  |-> r.out.value[k].width,
                                 height |-> r.out.value[k].height,
                                 format |-> r.out.value[k].format]]>>)
           [] r.op = "extractImage" ->
                IF r.out.value = <<>>
                THEN Err(ImageNotFound(r.args.pageNumber, r.args.imageIndex))
                ELSE Ok(<<"JSON", r.out.value[1]>>)
           [] OTHER -> Ok(<<"JSON", r.out.value>>)

\* the promise the handler returns: fulfilled with one text content, the
\* text of the catch block being `Error: ${error.message}`
CallToolHandler_noCatch(r) ==
    LET try == HandlerTry(r) IN
    IF try.ok
    THEN [state |-> "fulfilled", content |-> <<[type |-> "text", text |-> try.value]>>]
    ELSE [state |-> "rejected", content |-> <<>>]
CallToolHandler(r) ==
    LET try == HandlerTry(r) IN
    [state |-> "fulfilled",
     content |-> <<[type |-> "text",
                    text |-> IF try.ok THEN try.value
                             ELSE <<"Error: ">> \o try.error]>>]

----------------------------------------------------------------------------
(* Specifications *)

PageArgs == 0 .. MaxPageArg

Init ==
    /\ source \in [Locations -> {"docB", "missing"}]
    /\ loadedPDFs = <<>>
    /\ inflight = EmptyBag
    /\ ret = NoCall
    /\ completed = [l \in Locations |->
                       [ids |-> {}, last |-> <<>>, replaced |-> FALSE]]

\* the steps of suspended calls, and of the world
LoadProgress ==
    \/ \E c \in Suspended : LoadFetched(c)
    \/ \E c \in Suspended : LoadOpened(c)
    \/ \E c \in Suspended : LoadMetadata(c)
    \/ \E c \in Suspended : LoadOutline(c)
    \/ \E c \in Suspended : LoadPage(c)

ReopenProgress ==
    \/ \E c \in Suspended : ReopenFetched(c)
    \/ \E c \in Suspended : ReopenOpened(c)
    \/ \E c \in Suspended : RenderPagesFetched(c)
    \/ \E c \in Suspended : RenderPagesOpened(c)

World == \E path \in Locations : \E s \in SourceStates(path) : SourceChange(path, s)

\* the caller takes the outcome of the call that has just settled
Taken ==
    /\ ret # NoCall
    /\ ret' = NoCall
    /\ UNCHANGED <<source, loadedPDFs, inflight, completed>>

\* no call is suspended and no outcome is waiting to be taken
Quiet == inflight = EmptyBag /\ ret = NoCall

\* One caller at a time: it makes a call, with any arguments, once the call
\* before has settled and it has taken the outcome.
Next ==
    \/ LoadProgress
    \/ ReopenProgress
    \/ World
    \/ Taken
    \/ Quiet /\ \E path \in Locations : LoadPDF(path)
    \/ Quiet /\ \E pdfId \in IdArgs : \E p \in PageArgs : CallExtractPage(pdfId, p)
    \/ Quiet /\ \E pdfId \in IdArgs : \E a \in PageArgs : \E b \in PageArgs :
          CallExtractRange(pdfId, a, b)
    \/ Quiet /\ \E pdfId \in IdArgs : CallGetPDFInfo(pdfId)
    \/ Quiet /\ CallListLoadedPDFs
    \/ Quiet /\ \E pdfId \in IdArgs : CallExtractOutline(pdfId)
    \/ Quiet /\ \E pdfId \in IdArgs : CallGetFormattedOutline(pdfId)
    \/ Quiet /\ \E pdfId \in IdArgs : \E query \in Queries :
          \E caseSensitive \in BOOLEAN : \E regex \in BOOLEAN :
             CallSearchPDF(pdfId, query, caseSensitive, regex)
    \/ Quiet /\ \E pdfId \in IdArgs : CallListImages(pdfId)
    \/ Quiet /\ \E pdfId \in IdArgs : \E pageNumbers \in PageListArgs :
          \E dpi \in DpiArgs : CallExtractImages(pdfId, pageNumbers, dpi)
    \/ Quiet /\ \E pdfId \in IdArgs : \E p \in PageArgs :
          \E k \in ImageIndexArgs : \E dpi \in DpiArgs :
             CallExtractImage(pdfId, p, k, dpi)
    \/ Quiet /\ \E pdfId \in IdArgs : \E p \in PageArgs :
          \E dpi \in RenderDpiArgs : \E format \in FormatArgs :
             CallRenderPage(pdfId, p, dpi, format)
    \/ Quiet /\ \E pdfId \in IdArgs : \E pageNumbers \in PageListArgs :
          \E dpi \in RenderDpiArgs : \E format \in FormatArgs :
             CallRenderPages(pdfId, pageNumbers, dpi, format)
    \/ Quiet /\ CallUnknownTool("no_such_tool")

Spec == Init /\ [][Next]_vars

\* Concurrent callers: up to MaxCalls loads are suspended at once and
\* lookups run between their steps, while the local file is rewritten.
ProbeId == MD5(LocalPath)
NextConcurrent ==
    \/ LoadProgress
    \/ \E s \in PdfBytes : SourceChange(LocalPath, s)
    \/ \E path \in Locations : LoadPDF(path)
    \/ CallExtractPage(ProbeId, 1)
    \/ CallGetPDFInfo(ProbeId)
    \/ CallListLoadedPDFs

SpecConcurrent == Init /\ [][NextConcurrent]_vars

\* The larger document: the locations serve it or nothing, and one caller
\* loads it, searches it (with every query but the pattern that matches the
\* empty string at every position) and asks for its outline.
InitLarge ==
    /\ source \in [Locations -> {"docC", "missing"}]
    /\ loadedPDFs = <<>>
    /\ inflight = EmptyBag
    /\ ret = NoCall
    /\ completed = [l \in Locations |->
                       [ids |-> {}, last |-> <<>>, replaced |-> FALSE]]

NextLarge ==
    \/ LoadProgress
    \/ Taken
    \/ Quiet /\ \E path \in Locations : LoadPDF(path)
    \/ Quiet /\ \E pdfId \in IdArgs : \E query \in Queries \ { <<"x", "*">> } :
                 \E caseSensitive, regex \in BOOLEAN :
                     CallSearchPDF(pdfId, query, caseSensitive, regex)
    \/ Quiet /\ \E pdfId \in IdArgs : CallExtractOutline(pdfId)

SpecLarge == InitLarge /\ [][NextLarge]_vars

\* Search step by step: one caller loads and searches, with the queries of
\* the model and the empty string; a search that has begun runs on.
ScanProgress ==
    \/ \E c \in Suspended : ScanRegexStep(c)
    \/ \E c \in Suspended : ScanPlainStep(c)
    \/ \E c \in Suspended : ScanReturn(c)

NextScan ==
    \/ LoadProgress
    \/ Taken
    \/ ScanProgress
    \/ Quiet /\ \E path \in Locations : LoadPDF(path)
    \/ Quiet /\ \E pdfId \in IdArgs : \E query \in Queries \cup {<<>>} :
                 \E caseSensitive, regex \in BOOLEAN :
                     ScanStart(pdfId, query, caseSensitive, regex)

SpecScan == Init /\ [][NextScan]_vars /\ WF_vars(ScanProgress)

\* Two loops on their own, each applied to what it can be given.
\* The page text loop: the text contents a page can have are the lists of
\* up to MaxItems items, each a run with a string (possibly empty) at one
\* of four vertical offsets, or an item without a string.
TextContents ==
    LET items == {Item(s, y) : s \in {<<"a">>, <<>>}, y \in {0, 1, 3, 4}}
                    \cup {MarkedContent}
    IN UNION {[1 .. n -> items] : n \in 0 .. MaxItems}

\* the body of one iteration of the page loop, for the text content given
JoinTextContent(items) ==
    /\ ret' = Settled("pageText", [items |-> items], "done",
                      Ok(JoinItems(items, <<>>, <<>>)))
    /\ UNCHANGED <<source, loadedPDFs, inflight, completed>>

\* the loop over the operator list, for a page that paints one image: the
\* image object has up to MaxImageBytes bytes of data (among them the bytes
\* of the two signatures), a width and a height that may be 0, and a kind
ExtractOneImage(imageObj) ==
    LET page == [ops  |-> <<Op(PaintImageXObject, "im")>>,
                 objs |-> [n \in {"im"} |-> imageObj]]
    IN /\ ret' = Settled("extractImagesFromPage", [imageObj |-> imageObj], "done",
                         Ok(EmbeddedImages(page, 1, 1, <<>>)))
       /\ UNCHANGED <<source, loadedPDFs, inflight, completed>>

NextLoops ==
    \/ Taken
    \/ Quiet /\ \E items \in TextContents : JoinTextContent(items)
    \/ Quiet /\ \E data \in UNION {[1 .. n -> {255, 216, 137, 80, 7}] :
                                      n \in 0 .. MaxImageBytes} :
                 \E width, height \in {0, 1} : \E kind \in {1, 2, 3} :
                     ExtractOneImage(Image(data, width, height, kind))
    \/ Quiet /\ ExtractOneImage(BrokenImage)

SpecLoops == Init /\ [][NextLoops]_vars

----------------------------------------------------------------------------
(* Properties *)

\* the record a settled lookup was answered from (lookups change nothing
\* and ret lasts one step, so it is the record still in the registry)
Known == ret.op # "none" /\ ret.op # "loadPDF" /\ ret.op # "listLoadedPDFs"
            /\ MapHas(loadedPDFs, ret.args.pdfId)
Pdf == MapGet(loadedPDFs, ret.args.pdfId)

\* C1: extractPage(id, p) on a loaded document returns the stored text of
\* page p exactly when 1 <= p <= pageCount and fails with InvalidPageNumber
\* for every other p.
C1_ExtractPageBounds ==
    (ret.op = "extractPage" /\ Known) =>
        LET p == ret.args.pageNumber IN
        /\ (1 <= p /\ p <= Pdf.pageCount) => ret.out = Ok(Pdf.pages[p])
        /\ (p < 1 \/ p > Pdf.pageCount) =>
              ret.out = Err(InvalidPageNumber(Pdf.pageCount))
        /\ ret.out.ok <=> (1 <= p /\ p <= Pdf.pageCount)

\* extractPage has returned the text of the last page of a 3-page document
C1_Witness ==
    /\ ret.op = "extractPage" /\ Known /\ ret.out.ok
    /\ Pdf.pageCount = 3 /\ ret.args.pageNumber = 3
    /\ Len(ret.out.value) > 0

IsDigit(ch) == ch \in {"0", "1", "2", "3", "4", "5", "6", "7", "8", "9"}

DigitValue(ch) == CHOOSE d \in 0 .. 9 : ToString(d) = ch

MarkerHead == <<"-", "-", "-", " ", "P", "a", "g", "e", " ">>
MarkerTail == <<" ", "-", "-", "-">>

\* the positions pos .. pos + n - 1 of text hold digits
RECURSIVE DigitRun(_, _)
DigitRun(text, pos) ==
    IF pos < Len(text) /\ IsDigit(text[pos + 1]) THEN 1 + DigitRun(text, pos + 1) ELSE 0

RECURSIVE NumberOf(_, _)
NumberOf(digits, acc) ==
    IF digits = <<>> THEN acc
    ELSE NumberOf(Tail(digits), 10 * acc + DigitValue(Head(digits)))

\* the page markers ("--- Page <digits> ---") a reader finds in a text,
\* scanning from position pos and resuming after each marker: their numbers
RECURSIVE MarkersFrom(_, _)
MarkersFrom(text, pos) ==
    IF pos >= Len(text) THEN <<>>
    ELSE LET n == IF OccursAt(text, MarkerHead, pos)
                  THEN DigitRun(text, pos + Len(MarkerHead)) ELSE 0
             after == pos + Len(MarkerHead) + n
         IN IF n > 0 /\ OccursAt(text, MarkerTail, after)
            THEN <<NumberOf(SubSeq(text, pos + Len(MarkerHead) + 1, after), 0)>>
                   \o MarkersFrom(text, after + Len(MarkerTail))
            ELSE MarkersFrom(text, pos + 1)

Markers(text) == MarkersFrom(text, 0)

FromTo(a, b) == [k \in 1 .. (b - a + 1) |-> a + k - 1]

\* the markers of the blocks of pages i .. b, each followed by the markers
\* its own page text holds
RECURSIVE BlockMarkers(_, _, _)
BlockMarkers(pdf, i, b) ==
    IF i > b THEN <<>>
    ELSE <<i>> \o Markers(pdf.pages[i]) \o BlockMarkers(pdf, i + 1, b)

RangeIsValid(pdf, a, b) == 1 <= a /\ a <= b /\ b <= pdf.pageCount

\* C2 as claimed: extractRange(id, a, b) with 1 <= a <= b <= pageCount
\* returns a string holding exactly the b - a + 1 markers of pages a .. b in
\* ascending order, and fails with InvalidRange otherwise.
C2_ExactlyTheRangeMarkers ==
    (ret.op = "extractRange" /\ Known) =>
        LET a == ret.args.startPage
            b == ret.args.endPage
        IN IF RangeIsValid(Pdf, a, b)
           THEN ret.out.ok /\ Markers(ret.out.value) = FromTo(a, b)
           ELSE ret.out = Err(InvalidRange(Pdf.pageCount))

\* C2 amended: the string is made of b - a + 1 blocks in ascending page
\* order, so its markers are, block by block, the marker of page i followed
\* by whatever markers the stored text of page i itself holds: exactly the
\* markers of a .. b when no stored text in the range holds one.  Outside
\* 1 <= a <= b <= pageCount the call fails with InvalidRange.
C2_RangeBlocks ==
    (ret.op = "extractRange" /\ Known) =>
        LET a == ret.args.startPage
            b == ret.args.endPage
        IN IF RangeIsValid(Pdf, a, b)
           THEN /\ ret.out.ok
                /\ Markers(ret.out.value) = BlockMarkers(Pdf, a, b)
                /\ (\A i \in a .. b : Markers(Pdf.pages[i]) = <<>>)
                      => Markers(ret.out.value) = FromTo(a, b)
           ELSE ret.out = Err(InvalidRange(Pdf.pageCount))

\* extractRange has returned pages 1 .. 3 of a document none of whose page
\* texts holds a marker
C2_Witness ==
    /\ ret.op = "extractRange" /\ Known /\ ret.out.ok
    /\ ret.args.startPage = 1 /\ ret.args.endPage = 3
    /\ Markers(ret.out.value) = <<1, 2, 3>>


\* the record a load of path that read bytes builds
RecordOf(path, bytes) ==
    LET doc == Parse(bytes) IN
    LoadedRecord(path, doc, ExtractMetadata(doc), ExtractOutlineOf(doc),
                 [i \in 1 .. doc.numPages |-> PageText(doc, i)])

RecordsOf(path) == {i \in 1 .. Len(loadedPDFs) : loadedPDFs[i].path = path}

\* C3: the id depends on the location alone: every load of a location has
\* returned the same id, the registry holds at most one record per location,
\* and that record is the one built by the load of the location that
\* completed last (an earlier record is overwritten, not kept).
C3_OneRecordPerLocation ==
    /\ \A path \in Locations :
          /\ completed[path].ids \subseteq {MD5(path)}
          /\ Cardinality(RecordsOf(path)) <= 1
          /\ IF completed[path].last = <<>>
             THEN ~MapHas(loadedPDFs, MD5(path))
             ELSE /\ MapHas(loadedPDFs, MD5(path))
                  /\ MapGet(loadedPDFs, MD5(path))
                        = RecordOf(path, completed[path].last[1])
    /\ (ret.op = "loadPDF" /\ ret.out.ok) => ret.out.value.id = MD5(ret.args.path)
    /\ \A i, j \in 1 .. Len(loadedPDFs) :
          loadedPDFs[i].id = loadedPDFs[j].id => i = j

\* a load of the local path has just completed and has overwritten a
\* record of other content stored under the same id
C3_Witness ==
    /\ ret.op = "loadPDF" /\ ret.out.ok /\ ret.args.path = LocalPath
    /\ completed[LocalPath].replaced
    /\ completed[LocalPath].last = <<"docB">>
    /\ MapGet(loadedPDFs, MD5(LocalPath)).pageCount = 3
    /\ Cardinality(RecordsOf(LocalPath)) = 1

\* C4: no eviction: an id a load has returned stays in the registry through
\* every later operation, and getPDFInfo(id) and listLoadedPDFs() report it.
C4_NoEviction ==
    \A path \in Locations : \A id \in completed[path].ids :
        /\ MapHas(loadedPDFs, id)
        /\ (ret.op = "getPDFInfo" /\ ret.args.pdfId = id) =>
              (ret.out.ok /\ ret.out.value.id = id)
        /\ ret.op = "listLoadedPDFs" =>
              \E k \in 1 .. Len(ret.out.value) : ret.out.value[k].id = id

\* both locations were loaded, the local one serves nothing any more, a
\* later call has just failed or returned, and both ids are still there
C4_Witness ==
    /\ completed[LocalPath].ids # {} /\ completed[UrlPath].ids # {}
    /\ source[LocalPath] = "missing"
    /\ ret.op = "listLoadedPDFs" /\ Len(ret.out.value) = 2

IdOps == {"getPDFInfo", "extractPage", "extractRange", "searchPDF",
          "extractOutline", "getFormattedOutline", "listImages",
          "extractImages", "extractImage", "renderPage", "renderPages"}

\* C5: getPDFInfo(id) fails with NotFound exactly when id is not in the
\* registry, and every other operation that takes an id fails with NotFound
\* for an unknown id whatever its other arguments are.
C5_NotFound ==
    /\ ret.op \in IdOps =>
          (~MapHas(loadedPDFs, ret.args.pdfId) =>
              ret.out = Err(NotFound) /\ ret.stage = "call")
    /\ ret.op = "getPDFInfo" =>
          (ret.out = Err(NotFound) <=> ~MapHas(loadedPDFs, ret.args.pdfId))

\* renderPages was called with an unknown id while a document is loaded,
\* and has failed with NotFound
C5_Witness ==
    /\ ret.op = "renderPages" /\ ret.args.pdfId = UnknownId
    /\ ret.args.pageNumbers = Given(<<2, 1>>)
    /\ ret.out = Err(NotFound)
    /\ Len(loadedPDFs) > 0

HasOutline(pdf) == Len(pdf.outline) > 0

\* C6 as claimed: getPDFInfo returns every field of the record other than
\* pages (id, path, pageCount, metadata and, when the document has one, the
\* outline) with the value stored at load time.
C6_FullRecordMinusPages ==
    (ret.op = "getPDFInfo" /\ Known) =>
        /\ ret.out.ok
        /\ \A f \in (DOMAIN Pdf) \ {"pages"} :
              (f = "outline" /\ ~HasOutline(Pdf)) \/
              (f \in DOMAIN ret.out.value /\ ret.out.value[f] = Pdf[f])

\* C6 amended: getPDFInfo returns exactly id, path, pageCount and metadata,
\* each with the value stored at load time; neither the pages nor the
\* outline are part of the result.
C6_InfoFields ==
    (ret.op = "getPDFInfo" /\ Known) =>
        /\ ret.out.ok
        /\ DOMAIN ret.out.value = {"id", "path", "pageCount", "metadata"}
        /\ \A f \in DOMAIN ret.out.value : ret.out.value[f] = Pdf[f]

\* getPDFInfo has answered for a document that has an outline and metadata
C6_Witness ==
    /\ ret.op = "getPDFInfo" /\ Known /\ ret.out.ok
    /\ HasOutline(Pdf)
    /\ ret.out.value.metadata # "null"

LoadFailed == ret.op = "loadPDF" /\ ~ret.out.ok

\* the failures loadPDF can end with when the byte fetch fails, and when
\* the document layer cannot open the bytes
FetchFailures == {LoadError(cause) : cause \in CauseMessages \cup {HttpError}}
OpenFailures == {LoadError(cause) : cause \in CauseMessages}

\* C7 as claimed: a failed fetch and bytes that cannot be opened fail in
\* two kinds, and the caller can tell from the failure which occurred.
C7_TwoFailureKinds ==
    LoadFailed =>
        /\ ret.stage = "fetch" => ret.out.error \notin OpenFailures
        /\ ret.stage = "open" => ret.out.error \notin FetchFailures

\* C7 amended: loadPDF has one failure form, whether the fetch failed or the
\* bytes could not be opened: the message "Failed to load PDF: " followed by
\* the message of the cause; only that free text is left of the cause.
C7_OneFailureForm ==
    LoadFailed =>
        /\ ret.stage \in {"fetch", "open"}
        /\ ret.stage = "fetch" => ret.out.error \in FetchFailures
        /\ ret.stage = "open" => ret.out.error \in OpenFailures
        /\ Head(ret.out.error) = "Failed to load PDF: "
        /\ Len(ret.out.error) > 1

\* a load has failed on bytes that cannot be opened, with a failure a
\* failed fetch ends with too
C7_Witness ==
    /\ LoadFailed /\ ret.stage = "open"
    /\ ret.out.error \in FetchFailures
    /\ source[ret.args.path] = "garbage"

LoadsInFlight(path) ==
    {c \in Suspended : c.kind = "loadPDF" /\ c.path = path}

\* C8 as claimed: concurrent loads of one location are coalesced: while a
\* load of a location is in progress no second load of it fetches or parses
\* on its own.
C8_SingleFlight ==
    \A path \in Locations :
        /\ Cardinality(LoadsInFlight(path)) <= 1
        /\ \A c \in LoadsInFlight(path) : CopiesIn(c, inflight) = 1

\* the fields of a record are all there and are those of one document
FullyPopulated(rec) ==
    /\ DOMAIN rec = {"id", "path", "pageCount", "pages", "metadata", "outline"}
    /\ Len(rec.pages) = rec.pageCount
    /\ \E bytes \in PdfBytes : rec = RecordOf(rec.path, bytes)

\* C9: a record is never observable before it is fully populated: under any
\* interleaving of loads and lookups every record in the registry has its
\* final pageCount, all its page texts, its metadata and resolved outline.
C9_PublishedWhole ==
    /\ \A i \in 1 .. Len(loadedPDFs) : FullyPopulated(loadedPDFs[i])
    /\ (ret.op = "extractPage" /\ ret.out.ok) =>
          \E bytes \in PdfBytes :
              ret.out.value = PageText(Parse(bytes), ret.args.pageNumber)

\* a lookup ran while a load of its document had read some but not all of
\* the pages, and found no record yet
C9_Witness ==
    /\ ret.op = "extractPage" /\ ret.out = Err(NotFound)
    /\ \E c \in LoadsInFlight(LocalPath) :
          /\ c.pc = "pages"
          /\ Len(c.pages) > 0
          /\ Len(c.pages) < Parse(c.bytes).numPages

\* C10: renderPage on a loaded id fails with InvalidPageNumber when the
\* page number is below 1 or above pageCount, before the source is
\* re-opened; a successful result reports the page number, the format and
\* the dpi that were asked for.
C10_RenderPageValidation ==
    (ret.op = "renderPage" /\ Known) =>
        LET p == ret.args.pageNumber IN
        /\ (p < 1 \/ p > Pdf.pageCount) =>
              /\ ret.out = Err(InvalidPageNumber(Pdf.pageCount))
              /\ ret.stage = "call"
        /\ ret.out.ok =>
              /\ 1 <= p /\ p <= Pdf.pageCount
              /\ ret.stage # "call"
              /\ ret.out.value.page = p
              /\ ret.out.value.format = ret.args.format
              /\ ret.out.value.dpi = ret.args.dpi

\* renderPage has rendered the last page of a document as asked
C10_Witness ==
    /\ ret.op = "renderPage" /\ Known /\ ret.out.ok
    /\ ret.args.pageNumber = Pdf.pageCount
    /\ ret.out.value.dpi = 192
    /\ ret.out.value.format = "jpeg"

\* the entries at the positions of a list that are in keep, in list order
RECURSIVE Select(_, _, _)
Select(list, keep, k) ==
    IF k > Len(list) THEN <<>>
    ELSE (IF k \in keep THEN <<list[k]>> ELSE <<>>) \o Select(list, keep, k + 1)

PageNumbersOf(rendered) == [k \in 1 .. Len(rendered) |-> rendered[k].page]

\* C11: renderPages never fails over a bad page number or a page that fails
\* to render: its result is, in list order, made of the entries of the list
\* (1 .. pageCount when no list is given) that lie in 1 .. pageCount and
\* whose render succeeded; entries out of range are dropped without being
\* rendered, and an empty list gives an empty result.
C11_RenderPagesSubsequence ==
    (ret.op = "renderPages" /\ Known) =>
        LET list == PagesOf(ret.args.pageNumbers, Pdf.pageCount)
            inRange == {k \in 1 .. Len(list) :
                           list[k] >= 1 /\ list[k] <= Pdf.pageCount}
        IN /\ ret.out.ok
           /\ ret.threw \subseteq inRange
           /\ PageNumbersOf(ret.out.value) = Select(list, inRange \ ret.threw, 1)
           /\ \A k \in 1 .. Len(ret.out.value) :
                 /\ ret.out.value[k].dpi = ret.args.dpi
                 /\ ret.out.value[k].format = ret.args.format
           /\ list = <<>> => ret.out.value = <<>>
           /\ ~ret.args.pageNumbers.given => list = OneTo(Pdf.pageCount)

\* renderPages was given <<1, 4, 0>> for a 3-page document and returned
\* page 1 alone, nothing having thrown
C11_Witness ==
    /\ ret.op = "renderPages" /\ Known /\ ret.out.ok
    /\ Pdf.pageCount = 3
    /\ ret.args.pageNumbers = Given(<<1, 4, 0>>)
    /\ PageNumbersOf(ret.out.value) = <<1>>
    /\ ret.threw = {}

\* renderPages without a list has left out the one page of a 3-page
\* document whose render failed
C11_FailedPageOmitted ==
    /\ ret.op = "renderPages" /\ Known /\ ret.out.ok
    /\ ~ret.args.pageNumbers.given
    /\ PageNumbersOf(ret.out.value) = <<1, 3>>
    /\ ret.threw = {2}

\* the documents a successful renderPage result can have been painted from
RenderedFrom ==
    {bytes \in PdfBytes :
        /\ ret.args.pageNumber <= Parse(bytes).numPages
        /\ RenderOnDoc(Parse(bytes), ret.args.pageNumber, ret.args.dpi,
                       ret.args.format) = <<ret.out.value>>}

\* what renderPage reports for the page of the last call when it is
\* painted from the same document at another resolution
AtDpi(bytes, dpi) ==
    RenderOnDoc(Parse(bytes), ret.args.pageNumber, dpi, ret.args.format)[1]

\* C12: the reported width and height are the page's box scaled by dpi/72
\* and rounded to whole pixels, so for the same page the width and height
\* reported at 2 * d1 each differ from twice those reported at d1 by at
\* most 1 pixel.
C12_DoubleDpiDoubles ==
    (ret.op = "renderPage" /\ ret.out.ok) =>
        /\ RenderedFrom # {}
        /\ \A bytes \in RenderedFrom :
              LET page == Parse(bytes).pages[ret.args.pageNumber] IN
              /\ 2 * Abs(PointsPerInch * ret.out.value.width
                            - page.width * ret.args.dpi) <= PointsPerInch
              /\ 2 * Abs(PointsPerInch * ret.out.value.height
                            - page.height * ret.args.dpi) <= PointsPerInch
              /\ \A d1 \in 1 .. MaxDpi :
                    /\ Abs(AtDpi(bytes, 2 * d1).width
                             - 2 * AtDpi(bytes, d1).width) <= 1
                    /\ Abs(AtDpi(bytes, 2 * d1).height
                             - 2 * AtDpi(bytes, d1).height) <= 1

\* a 595-point wide page has been rendered at 192 dpi as 1587 pixels, one
\* more than twice the 793 pixels it has at 96 dpi
C12_Witness ==
    /\ ret.op = "renderPage" /\ ret.out.ok
    /\ ret.args.dpi = 192 /\ ret.out.value.width = 1587
    /\ \E bytes \in RenderedFrom : AtDpi(bytes, 96).width = 793

ExtractedFrom ==
    {bytes \in PdfBytes :
        ExtractImages(Parse(bytes), ret.args.pageNumbers, ret.args.dpi)
            = ret.out.value}

\* the pages of a document that extractImages was asked for, each once
TimesAsked(doc, p) ==
    LET list == PagesOf(ret.args.pageNumbers, doc.numPages) IN
    Cardinality({k \in 1 .. Len(list) : list[k] = p})
PagesAsked(doc) == {p \in 1 .. doc.numPages : TimesAsked(doc, p) = 1}

\* the images of a result that are of one page, in result order
OfPage(images, p) ==
    Select(images, {k \in 1 .. Len(images) : images[k].page = p}, 1)

NoImageOps(page) == \A i \in 1 .. Len(page.ops) : ~IsImageOp(page.ops[i].fn)

\* the page painted whole at a resolution, as extractImages returns it
Rasterized(page, p, dpi) ==
    [page |-> p, index |-> 0,
     width |-> Scaled(page.width, dpi), height |-> Scaled(page.height, dpi),
     format |-> "png",
     base64 |-> Base64(Encode(PageRaster(page, Scaled(page.width, dpi),
                                         Scaled(page.height, dpi)), "png"))]

IsRasterOf(image, page) ==
    image.base64.bytes = Encode(PageRaster(page, image.width, image.height), "png")

\* C14 as claimed: for a page with no embedded images extractImages gives
\* nothing of it at dpi 0 and exactly one image, the rasterized page with
\* index 0, at a positive dpi; for a page that yields an embedded image no
\* rasterized page is added whatever the dpi.
C14_FallbackAlways ==
    (ret.op = "extractImages" /\ ret.out.ok) =>
        \A bytes \in ExtractedFrom : \A p \in PagesAsked(Parse(bytes)) :
            LET page == Parse(bytes).pages[p]
                got == OfPage(ret.out.value, p)
                dpi == ret.args.dpi
            IN /\ (NoImageOps(page) /\ dpi = 0) => got = <<>>
               /\ (NoImageOps(page) /\ dpi > 0) => got = <<Rasterized(page, p, dpi)>>
               /\ ~NoImageOps(page) =>
                     /\ got # <<>>
                     /\ \A k \in 1 .. Len(got) : ~IsRasterOf(got[k], page)

\* C14 amended: as claimed when the page can be rasterized; when painting
\* the page fails the failure is absorbed and nothing is returned of a page
\* with no embedded images at a positive dpi either.
C14_FallbackUnlessPaintFails ==
    (ret.op = "extractImages" /\ ret.out.ok) =>
        /\ ExtractedFrom # {}
        /\ \A bytes \in ExtractedFrom : \A p \in PagesAsked(Parse(bytes)) :
            LET page == Parse(bytes).pages[p]
                got == OfPage(ret.out.value, p)
                dpi == ret.args.dpi
            IN /\ (NoImageOps(page) /\ dpi = 0) => got = <<>>
               /\ (NoImageOps(page) /\ dpi > 0 /\ ~page.renderFails)
                     => got = <<Rasterized(page, p, dpi)>>
               /\ (NoImageOps(page) /\ dpi > 0 /\ page.renderFails) => got = <<>>
               /\ ~NoImageOps(page) =>
                     /\ got # <<>>
                     /\ \A k \in 1 .. Len(got) : ~IsRasterOf(got[k], page)

\* extractImages was asked at 96 dpi for pages 2 and 1 of a document with
\* no embedded image on either: page 1 came back rasterized, and page 2,
\* which cannot be painted, not at all
C14_Witness ==
    /\ ret.op = "extractImages" /\ ret.out.ok
    /\ ret.args.pageNumbers = Given(<<2, 1>>) /\ ret.args.dpi = 96
    /\ "docB" \in ExtractedFrom
    /\ Len(ret.out.value) = 1
    /\ ret.out.value[1].page = 1 /\ ret.out.value[1].index = 0
    /\ IsRasterOf(ret.out.value[1], DocB.pages[1])

\* the documents the result of the last listImages call can have been
\* taken from
ListedFrom == {bytes \in PdfBytes : ListImagesFrom(Parse(bytes), 1) = ret.out.value}

\* an image can be taken from the object of a paint operator
Decodes(imageObj) ==
    /\ ~imageObj.getFails /\ Len(imageObj.data) > 0
    /\ \/ Len(imageObj.data) >= 2 /\ imageObj.data[1] = 255 /\ imageObj.data[2] = 216
       \/ Len(imageObj.data) >= 2 /\ imageObj.data[1] = 137 /\ imageObj.data[2] = 80
       \/ imageObj.width # 0 /\ imageObj.height # 0

\* the objects painted on a page that yield an image, in paint order
Painted(page) ==
    Select(page.ops,
           {i \in 1 .. Len(page.ops) :
               IsImageOp(page.ops[i].fn) /\ Decodes(page.objs[page.ops[i].arg])}, 1)

\* the images of page p in a result are those painted on the page, in
\* paint order, with the indices 0, 1, 2, ...
InPaintOrder(images, page, p) ==
    LET got == OfPage(images, p)
        painted == Painted(page)
    IN painted # <<>> =>
         /\ Len(got) = Len(painted)
         /\ \A k \in 1 .. Len(got) :
               /\ got[k].index = k - 1
               /\ got[k].width = page.objs[painted[k].arg].width
               /\ got[k].height = page.objs[painted[k].arg].height

NoPairTwice(images) ==
    \A i, j \in 1 .. Len(images) :
        (images[i].page = images[j].page /\ images[i].index = images[j].index)
            => i = j

\* every image either starts a page at index 0 or follows the image before
\* it on the same page with the next index
IndicesRunFromZero(images) ==
    \A k \in 1 .. Len(images) :
        \/ images[k].index = 0
        \/ /\ k > 1
           /\ images[k - 1].page = images[k].page
           /\ images[k].index = images[k - 1].index + 1

\* C15 as claimed: in the result of any listImages, extractImages or
\* extractImage call no two images share a (page, index) pair, and the
\* images of a page carry 0, 1, 2, ... in paint order, an image that fails
\* to decode taking no index.
C15_IndicesUniqueInAnyResult ==
    /\ (ret.op = "listImages" /\ ret.out.ok) =>
          /\ NoPairTwice(ret.out.value)
          /\ \A bytes \in ListedFrom : \A p \in 1 .. Parse(bytes).numPages :
                InPaintOrder(ret.out.value, Parse(bytes).pages[p], p)
    /\ (ret.op = "extractImages" /\ ret.out.ok) =>
          /\ NoPairTwice(ret.out.value)
          /\ \A bytes \in ExtractedFrom : \A p \in PagesAsked(Parse(bytes)) :
                InPaintOrder(ret.out.value, Parse(bytes).pages[p], p)

\* C15 amended: each time a page is processed its images get 0, 1, 2, ...
\* in paint order, an image that fails to decode taking no index; no two
\* images of a listImages or extractImage result, or of an extractImages
\* result for a list that names no page twice, share a (page, index) pair.
\* A page named n times in the list has its images n times in the result.
C15_IndicesPerPageProcessed ==
    /\ (ret.op = "listImages" /\ ret.out.ok) =>
          /\ ListedFrom # {}
          /\ NoPairTwice(ret.out.value)
          /\ IndicesRunFromZero(ret.out.value)
          /\ \A bytes \in ListedFrom : \A p \in 1 .. Parse(bytes).numPages :
                InPaintOrder(ret.out.value, Parse(bytes).pages[p], p)
    /\ (ret.op = "extractImages" /\ ret.out.ok) =>
          /\ IndicesRunFromZero(ret.out.value)
          /\ \A bytes \in ExtractedFrom :
                LET doc == Parse(bytes) IN
                /\ (\A p \in 1 .. doc.numPages : TimesAsked(doc, p) <= 1)
                      => NoPairTwice(ret.out.value)
                /\ \A p \in PagesAsked(doc) :
                      InPaintOrder(ret.out.value, doc.pages[p], p)
                /\ \A p \in 1 .. doc.numPages :
                      Len(OfPage(ret.out.value, p))
                         = TimesAsked(doc, p)
                             * Len(ExtractImagesFromPage(doc.pages[p], p, ret.args.dpi))
    /\ (ret.op = "extractImage" /\ ret.out.ok /\ ret.out.value # <<>>) =>
          /\ ret.out.value[1].page = ret.args.pageNumber
          /\ ret.out.value[1].index = ret.args.imageIndex

\* listImages has listed the three images that decode of a page that
\* paints four, the one after the broken one with index 1
C15_Witness ==
    /\ ret.op = "listImages" /\ ret.out.ok
    /\ "docA" \in ListedFrom
    /\ Len(OfPage(ret.out.value, 1)) = 3
    /\ Len(DocA.pages[1].ops) = 5
    /\ OfPage(ret.out.value, 1)[2].index = 1
    /\ OfPage(ret.out.value, 1)[2].width = DocA.pages[1].objs["gray"].width

Fold(text, caseSensitive) == IF caseSensitive THEN text ELSE ToLowerCase(text)

\* the positions a left-to-right scan finds the needle at, resuming right
\* after the end of each occurrence
RECURSIVE Scan(_, _, _)
Scan(text, needle, pos) ==
    LET ahead == {q \in pos .. Len(text) : OccursAt(text, needle, q)} IN
    IF ahead = {} THEN <<>>
    ELSE LET first == CHOOSE q \in ahead : \A r \in ahead : q <= r IN
         <<first>> \o Scan(text, needle, first + Len(needle))

PlainSearch == ret.op = "searchPDF" /\ ~ret.args.regex /\ Known /\ ret.out.ok

\* the matches a search result lists for a page: <<>> when it is not listed
MatchesOn(results, p) ==
    LET hits == {k \in 1 .. Len(results) : results[k].page = p} IN
    IF hits = {} THEN <<>> ELSE results[CHOOSE k \in hits : TRUE].matches

\* the matches of page p are the occurrences the scan finds, each reported
\* as the text of the page at the position of the occurrence
ScanOccurrences(p) ==
    LET T == Pdf.pages[p]
        found == Scan(Fold(T, ret.args.caseSensitive),
                      Fold(ret.args.query, ret.args.caseSensitive), 0)
        matches == MatchesOn(ret.out.value, p)
    IN /\ Len(matches) = Len(found)
       /\ \A k \in 1 .. Len(matches) :
             matches[k].text
                = Substring(T, found[k], found[k] + Len(ret.args.query))

\* C16 as claimed: plain search reports on a page exactly the occurrences a
\* left-to-right scan resuming after each match finds, in the folded text
\* when not case sensitive; each reported text is the text of the page at
\* the position of the match and equals the query up to case folding.
C16_PlainMatchEqualsQuery ==
    PlainSearch =>
        \A p \in 1 .. Pdf.pageCount :
            /\ ScanOccurrences(p)
            /\ \A k \in 1 .. Len(MatchesOn(ret.out.value, p)) :
                  Fold(MatchesOn(ret.out.value, p)[k].text, ret.args.caseSensitive)
                     = Fold(ret.args.query, ret.args.caseSensitive)

\* what does hold of plain search: the occurrences reported are those of
\* the scan, each as the text of the page at the position found in the
\* folded text
C16_PlainScan == PlainSearch => \A p \in 1 .. Pdf.pageCount : ScanOccurrences(p)

\* a search for "hello" without regard to case has reported "ello" from a
\* page on which a capital I with dot above stands before the occurrence
C16_ShiftedMatch ==
    /\ PlainSearch /\ ~ret.args.caseSensitive
    /\ Pdf.pageCount = 3
    /\ Len(MatchesOn(ret.out.value, 3)) = 2
    /\ MatchesOn(ret.out.value, 3)[1].text = <<"H", "e", "l", "l", "o">>
    /\ MatchesOn(ret.out.value, 3)[2].text = <<"e", "l", "l", "o">>

InvalidPattern(query) == <<"Invalid regular expression: ">> \o query

\* a character class is opened and never closed
UnclosedClass(query) ==
    \E k \in 1 .. Len(query) :
        query[k] = "[" /\ \A j \in (k + 1) .. Len(query) : query[j] # "]"

\* the strings a pattern without repetition stands for
LiteralsOf(query) ==
    LET alts == Alternatives(query, <<>>) IN
    {[k \in 1 .. Len(alts[a]) |-> alts[a][k].ch] : a \in 1 .. Len(alts)}

HasRepetition(query) == \E k \in 1 .. Len(query) : query[k] = "*"

SameButCase(s, t) ==
    Len(s) = Len(t) /\ \A k \in 1 .. Len(s) : LowerChar(s[k]) = LowerChar(t[k])

AllMatchTexts(results) ==
    UNION {{results[k].matches[i].text : i \in 1 .. Len(results[k].matches)} :
              k \in 1 .. Len(results)}

\* what a regex search of a loaded document has returned
RegexOutcome(r, m) ==
    LET query == r.args.query IN
    /\ UnclosedClass(query) => r.out = Err(InvalidPattern(query))
    /\ ~UnclosedClass(query) =>
          /\ r.out.ok
          /\ r.out.value
                = SearchPages(MapGet(m, r.args.pdfId).pages, 1, query,
                              r.args.caseSensitive, TRUE)
          /\ ~HasRepetition(query) =>
                \A text \in AllMatchTexts(r.out.value) :
                    IF r.args.caseSensitive
                    THEN text \in LiteralsOf(query)
                    ELSE \E lit \in LiteralsOf(query) : SameButCase(text, lit)

\* C17: a regex search with a malformed pattern fails with InvalidPattern
\* for every loaded document, returns no results and leaves the registry
\* as it was; a well-formed pattern never fails so, and is applied without
\* regard to case exactly when caseSensitive is false.
C17_InvalidPattern ==
    [][ (ret'.op = "searchPDF" /\ ret'.args.regex
            /\ MapHas(loadedPDFs, ret'.args.pdfId))
          => /\ loadedPDFs' = loadedPDFs
             /\ RegexOutcome(ret', loadedPDFs) ]_vars

\* a regex search with the pattern "[" has failed on a loaded document
C17_Witness ==
    /\ ret.op = "searchPDF" /\ ret.args.regex /\ Known
    /\ ret.args.query = <<"[">>
    /\ ret.out = Err(InvalidPattern(<<"[">>))

\* a regex search for "hello" without regard to case has found "Hello",
\* which the same search with regard to case does not find
C17_CaseWitness ==
    /\ ret.op = "searchPDF" /\ ret.args.regex /\ Known /\ ret.out.ok
    /\ ~ret.args.caseSensitive
    /\ ret.args.query = <<"h", "e", "l", "l", "o">>
    /\ <<"H", "e", "l", "l", "o">> \in AllMatchTexts(ret.out.value)
    /\ <<"H", "e", "l", "l", "o">> \notin
          AllMatchTexts(SearchPDF(loadedPDFs, ret.args.pdfId, ret.args.query,
                                  TRUE, TRUE).value)

SearchDone == ret.op = "searchPDF" /\ Known /\ ret.out.ok

\* the texts of the matches stand in the page text at positions that grow
\* from one match to the next
RECURSIVE InOrderFrom(_, _, _)
InOrderFrom(matches, T, from) ==
    IF matches = <<>> THEN TRUE
    ELSE LET pos == IndexOf(T, Head(matches).text, from) IN
         /\ pos # -1
         /\ pos >= from
         /\ InOrderFrom(Tail(matches), T, pos + 1)

\* C18: in both modes the results are grouped by page in ascending page
\* order, each page at most once; the matches of a page are in left-to-right
\* order of position; every page listed has at least one match, so a page
\* without a match is never listed.
C18_GroupedByPage ==
    SearchDone =>
        LET results == ret.out.value IN
        /\ \A k \in 1 .. Len(results) :
              /\ results[k].page \in 1 .. Pdf.pageCount
              /\ Len(results[k].matches) >= 1
              /\ InOrderFrom(results[k].matches, Pdf.pages[results[k].page], 0)
        /\ \A j, k \in 1 .. Len(results) :
              j < k => results[j].page < results[k].page

\* a search of a three-page document lists page 3 alone, with three matches
\* in the order they stand on the page, pages 1 and 2 having none
C18_Witness ==
    /\ SearchDone /\ Pdf.pageCount = 3
    /\ Len(ret.out.value) = 1
    /\ ret.out.value[1].page = 3
    /\ Len(ret.out.value[1].matches) = 3
    /\ ret.out.value[1].matches[1].text = <<"H", "e", "l", "l", "o">>
    /\ ret.out.value[1].matches[2].text = <<"W", "o", "r", "l", "d">>
    /\ ret.out.value[1].matches[3].text = <<"h", "e", "l", "l", "o">>

\* a search has listed several pages
C18_SeveralPages ==
    /\ SearchDone /\ Len(ret.out.value) >= 2
    /\ \E k \in 1 .. Len(ret.out.value) : Len(ret.out.value[k].matches) >= 2

\* the positions the exec loop of regex mode finds its matches at
RECURSIVE ExecPositions(_, _, _, _)
ExecPositions(alts, T, lastIndex, ignoreCase) ==
    LET match == Exec(alts, T, lastIndex, ignoreCase) IN
    IF match = <<>> THEN <<>>
    ELSE <<match[1]>>
         \o ExecPositions(alts, T,
                          IF match[1] = match[2] THEN match[2] + 1 ELSE match[2],
                          ignoreCase)

\* the positions of the matches of the settled search on page p
PositionsOn(p) ==
    IF ret.args.regex
    THEN ExecPositions(Alternatives(ret.args.query, <<>>), Pdf.pages[p], 0,
                       ~ret.args.caseSensitive)
    ELSE Scan(Fold(Pdf.pages[p], ret.args.caseSensitive),
              Fold(ret.args.query, ret.args.caseSensitive), 0)

\* the text of T from ContextRadius before pos to ContextRadius after
\* pos + n, cut at the ends of T, without the white space at its ends
Window(T, pos, n) ==
    Trim(Substring(T, Max(0, pos - ContextRadius),
                   Min(Len(T), pos + n + ContextRadius)))

\* the matches of page p, each at its position: its text is the text of the
\* page there, and its context is the window around as many characters as
\* Width gives for it
WindowsOn(p, Width(_)) ==
    LET T == Pdf.pages[p]
        pos == PositionsOn(p)
        matches == MatchesOn(ret.out.value, p)
    IN /\ Len(matches) = Len(pos)
       /\ \A k \in 1 .. Len(matches) :
             LET m == matches[k].text IN
             /\ m = Substring(T, pos[k], pos[k] + Len(m))
             /\ matches[k].context = Window(T, pos[k], Width(m))
             /\ Len(matches[k].context) <= Width(m) + 2 * ContextRadius

WidthOfMatch(m) == Len(m)

\* the width the code takes: the matched text in regex mode, the folded
\* query in plain mode
WidthTaken(m) ==
    IF ret.args.regex THEN Len(m)
    ELSE Len(Fold(ret.args.query, ret.args.caseSensitive))

\* C19: for every match at position pos with matched text m on a page of
\* text T, the context is the text of T from max(0, pos - 50) to
\* min(len(T), pos + len(m) + 50) without the white space at its ends; it
\* is at most len(m) + 100 characters long, and m is the text of T at pos.
C19_ContextWindow ==
    SearchDone => \A p \in 1 .. Pdf.pageCount : WindowsOn(p, WidthOfMatch)

\* what does hold: the window is as claimed in regex mode, and in plain mode
\* it reaches 50 characters beyond the length of the folded query
C19_WindowByFoldedQuery ==
    SearchDone => \A p \in 1 .. Pdf.pageCount : WindowsOn(p, WidthTaken)

\* a plain search for a capital I with dot above, without regard to case,
\* has recorded a one-character match with a context of 102 characters
C19_LongWindow ==
    /\ SearchDone /\ ~ret.args.regex /\ ~ret.args.caseSensitive
    /\ ret.args.query = <<CapitalIDot>>
    /\ \E k \in 1 .. Len(ret.out.value) :
          \E i \in 1 .. Len(ret.out.value[k].matches) :
              /\ Len(ret.out.value[k].matches[i].text) = 1
              /\ Len(ret.out.value[k].matches[i].context) = 2 * ContextRadius + 2

\* a regex search has recorded a window cut on both sides inside the page:
\* a one-character match with 50 characters before it and 50 after it
C19_CutBothSides ==
    /\ SearchDone /\ ret.args.regex
    /\ \E k \in 1 .. Len(ret.out.value) :
          \E i \in 1 .. Len(ret.out.value[k].matches) :
              /\ Len(ret.out.value[k].matches[i].text) = 1
              /\ Len(ret.out.value[k].matches[i].context) = 2 * ContextRadius + 1
              /\ Len(Pdf.pages[ret.out.value[k].page]) > 2 * ContextRadius + 1

\* a window that ended in a space has been recorded without it: the match
\* "Hello" at position 0, its window the first 55 characters of the page
C19_Trimmed ==
    /\ SearchDone
    /\ \E k \in 1 .. Len(ret.out.value) :
          \E i \in 1 .. Len(ret.out.value[k].matches) :
              /\ ret.out.value[k].matches[i].text = <<"H", "e", "l", "l", "o">>
              /\ Len(ret.out.value[k].matches[i].context) = ContextRadius + 4
              /\ Pdf.pages[ret.out.value[k].page][ContextRadius + 5] = " "

\* every item of the list has the level, and its children the next one
RECURSIVE LevelsFrom(_, _)
LevelsFrom(items, level) ==
    \A k \in 1 .. Len(items) :
        /\ items[k].level = level
        /\ LevelsFrom(items[k].children, level + 1)

\* how deep the list goes: 0 for no item
RECURSIVE Depth(_)
Depth(items) ==
    IF items = <<>> THEN 0
    ELSE 1 + Max(Depth(Head(items).children), Depth(Tail(items)) - 1)

\* C20: in every outline stored in the registry each root item has level 0
\* and every child has the level of its parent plus one, whatever the shape
\* and depth of the outline.
C20_OutlineLevels ==
    \A k \in 1 .. Len(loadedPDFs) : LevelsFrom(loadedPDFs[k].outline, 0)

\* the registry holds an outline four items deep whose roots are a subtree,
\* a single item and an item with one child
C20_Witness ==
    \E k \in 1 .. Len(loadedPDFs) :
        LET outline == loadedPDFs[k].outline IN
        /\ Len(outline) = 3
        /\ Depth(outline) = 4
        /\ outline[1].children[1].children[1].children[2].level = 3
        /\ outline[2].children = <<>>
        /\ Depth(outline[3].children) = 1

\* the operations a tool of the server runs (extractOutline is reached
\* through getFormattedOutline only)
Handled == ret.op # "none" /\ ret.op # "extractOutline"

\* the message of the error the settled call ended in, <<>> when it did not
FailureOf(r) ==
    IF ~r.out.ok THEN <<r.out.error>>
    ELSE IF r.op = "extractImage" /\ r.out.value = <<>>
         THEN <<ImageNotFound(r.args.pageNumber, r.args.imageIndex)>>
         ELSE <<>>

\* C21: every error raised while a tool call is handled (unknown id, bad
\* bounds, invalid pattern, unreachable source, image not found, unknown
\* tool name) comes back as a text with the prefix "Error: "; no call ends
\* in a rejection, so every call yields one text, a payload or an error.
C21_ErrorsAsText ==
    Handled =>
        LET answer == CallToolHandler(ret) IN
        /\ answer.state = "fulfilled"
        /\ Len(answer.content) = 1
        /\ answer.content[1].type = "text"
        /\ FailureOf(ret) # <<>> =>
              answer.content[1].text = <<"Error: ">> \o FailureOf(ret)[1]
        /\ FailureOf(ret) = <<>> =>
              \/ answer.content[1].text = <<>>
              \/ Head(answer.content[1].text) # "Error: "

\* a call of a tool the server does not have has been answered with the text
\* "Error: Unknown tool: no_such_tool"
C21_Witness ==
    /\ ret.op = "no_such_tool"
    /\ CallToolHandler(ret).content[1].text
          = <<"Error: ", "Unknown tool: ", "no_such_tool">>

\* the kinds of error the claim lists, each answered as a text
C21_NotFoundText ==
    /\ Handled /\ ret.op = "extractPage"
    /\ CallToolHandler(ret).content[1].text = <<"Error: ">> \o NotFound
C21_InvalidPatternText ==
    /\ Handled /\ ret.op = "searchPDF"
    /\ CallToolHandler(ret).content[1].text
          = <<"Error: ", "Invalid regular expression: ", "[">>
C21_UnreachableText ==
    /\ Handled /\ ret.op = "loadPDF" /\ ret.stage = "fetch"
    /\ Head(CallToolHandler(ret).content[1].text) = "Error: "
C21_ImageNotFoundText ==
    /\ Handled /\ ret.op = "extractImage" /\ ret.out.ok
    /\ CallToolHandler(ret).content[1].text
          = <<"Error: ">> \o ImageNotFound(ret.args.pageNumber, ret.args.imageIndex)

\* C22: only load changes the registry.  Every step of info, list,
\* extractPage, extractRange, search, extractOutline, listImages,
\* extractImages, extractImage, renderPage and renderPages, failing or not,
\* leaves every record as it was: a step that changes the registry is the
\* last step of a load.
C22_OnlyLoadWrites ==
    [][ loadedPDFs' # loadedPDFs =>
          /\ ret'.op = "loadPDF" /\ ret'.out.ok
          /\ \E c \in Suspended : c.kind = "loadPDF" /\ c.pc = "pages" ]_vars

\* image extraction has re-opened a source that no longer serves what was
\* loaded from it, and has settled with two records in the registry
C22_Witness ==
    /\ ret.op = "extractImages" /\ ret.stage # "call"
    /\ Len(loadedPDFs) = 2
    /\ \A k \in 1 .. Len(loadedPDFs) :
          \A bytes \in PdfBytes :
              source[loadedPDFs[k].path] = bytes
                 => loadedPDFs[k] # RecordOf(loadedPDFs[k].path, bytes)

\* the bytes the most recent successful load of the location of the record
\* asked for had read, and the record loading them gives
LastLoaded == completed[Pdf.path].last[1]
Captured == RecordOf(Pdf.path, LastLoaded)

\* C23: extractPage, extractRange and search answer from the content read
\* by the most recent successful load of the location, whatever the source
\* has become since; after another successful load they answer from the
\* content that load read.
C23_ServedAsLoaded ==
    (ret.op \in {"extractPage", "extractRange", "searchPDF"} /\ Known) =>
        /\ completed[Pdf.path].last # <<>>
        /\ Pdf = Captured
        /\ (ret.op = "extractPage" /\ ret.out.ok) =>
              ret.out.value = PageText(Parse(LastLoaded), ret.args.pageNumber)
        /\ ret.op = "extractRange" =>
              ret.out = ExtractRange(<<Captured>>, ret.args.pdfId,
                                     ret.args.startPage, ret.args.endPage)
        /\ ret.op = "searchPDF" =>
              ret.out = SearchPDF(<<Captured>>, ret.args.pdfId, ret.args.query,
                                  ret.args.caseSensitive, ret.args.regex)

\* a page has been served as it was loaded while the location serves
\* another document, whose page of that number reads differently
C23_Witness ==
    /\ ret.op = "extractPage" /\ Known /\ ret.out.ok
    /\ source[Pdf.path] \in PdfBytes
    /\ source[Pdf.path] # LastLoaded
    /\ ret.args.pageNumber <= Parse(source[Pdf.path]).numPages
    /\ ret.out.value # PageText(Parse(source[Pdf.path]), ret.args.pageNumber)

\* after the location was loaded again with other content, a search answers
\* from that content
C23_Reloaded ==
    /\ ret.op = "searchPDF" /\ Known /\ ret.out.ok
    /\ completed[Pdf.path].replaced
    /\ source[Pdf.path] = LastLoaded
    /\ ret.out.value # <<>>

\* the search in progress, if there is one
Scanning == \E c \in Suspended : c.kind = "searchPDF"
Frame == CHOOSE c \in Suspended : c.kind = "searchPDF"

\* the step is an iteration that has recorded a match
Recorded ==
    /\ Scanning /\ Scanning'
    /\ Frame'.index = Frame.index
    /\ Len(Frame'.matches) = Len(Frame.matches) + 1

\* a search step by step gives what the search in one step gives
ScanAgrees ==
    (ret.op = "searchPDF" /\ ret.stage = "done") =>
        ret.out = SearchPDF(loadedPDFs, ret.args.pdfId, ret.args.query,
                            ret.args.caseSensitive, ret.args.regex)

\* C24: a regex search with a well-formed pattern terminates on every page
\* text, also when matches are empty: from one recorded match to the next
\* the scan position grows (after an empty match it is moved on by one) and
\* stays within the page text and one beyond, so the loop of every page
\* ends and the search returns.
C24_RegexTerminates ==
    /\ [][ (Recorded /\ Frame.args.regex) =>
              /\ Frame'.position > Frame.position
              /\ Frame'.position <= Len(Frame.pages[Frame.index]) + 1 ]_vars
    /\ (Scanning /\ Frame.args.regex)
          ~> (ret.op = "searchPDF" /\ ret.stage = "done" /\ ret.args.regex)

\* a regex search that matches the empty string has recorded an empty match
\* at each of the 19 positions of an 18-character page, and has returned
C24_Witness ==
    /\ ret.op = "searchPDF" /\ ret.stage = "done" /\ ret.args.regex
    /\ ret.args.query = <<"x", "*">>
    /\ \E k \in 1 .. Len(ret.out.value) :
          /\ Len(ret.out.value[k].matches) = 19
          /\ \A i \in 1 .. 19 : ret.out.value[k].matches[i].text = <<>>

\* C30: a plain search terminates for every query, the empty string
\* included, on every page text: after each recorded match the scan position
\* is greater than before, a page never has more matches than characters,
\* and the search returns.
C30_PlainTerminates ==
    /\ [][ (Recorded /\ ~Frame.args.regex) =>
              Frame'.position > Frame.position ]_vars
    /\ [](Scanning /\ ~Frame.args.regex /\ Frame.index <= Len(Frame.pages)
              => Len(Frame.matches) <= Len(Frame.pages[Frame.index]))
    /\ (Scanning /\ ~Frame.args.regex)
          ~> (ret.op = "searchPDF" /\ ret.stage = "done" /\ ~ret.args.regex)

\* what holds of a plain search: with a query that is not empty the position
\* grows by the length of the folded query after each recorded match, no
\* page has more matches than characters, and the search returns
C30_NonEmptyQueryTerminates ==
    /\ [][ (Recorded /\ ~Frame.args.regex /\ Frame.args.query # <<>>) =>
              Frame'.position > Frame.position ]_vars
    /\ [](Scanning /\ ~Frame.args.regex /\ Frame.args.query # <<>>
              /\ Frame.index <= Len(Frame.pages)
              => Len(Frame.matches) <= Len(Frame.pages[Frame.index]))
    /\ (Scanning /\ ~Frame.args.regex /\ Frame.args.query # <<>>)
          ~> (ret.op = "searchPDF" /\ ret.stage = "done" /\ ~ret.args.regex)

\* with the empty query the position stays where it is after a match
C30_EmptyQueryStays ==
    [][ (Recorded /\ ~Frame.args.regex /\ Frame.args.query = <<>>) =>
           Frame'.position = Frame.position ]_vars

\* a plain search with the empty query is still on the first page of the
\* document, at position 0, with as many matches recorded as the model
\* follows
C30_EmptyQueryLoops ==
    /\ Scanning /\ ~Frame.args.regex /\ Frame.args.query = <<>>
    /\ Frame.index = 1 /\ Frame.position = 0
    /\ Len(Frame.matches) = MaxMatches

\* the text runs of a page (the items that carry a string), in input order
Runs(items) == SelectSeq(items, LAMBDA item : item.hasStr)

\* a line break comes before run k: there is a run before it, and the
\* vertical offsets of the two differ by more than 1
BreakBefore(runs, k) ==
    /\ k > 1
    /\ \/ runs[k - 1].y - runs[k].y > 1
       \/ runs[k].y - runs[k - 1].y > 1

\* the strings of the first k runs, each after its line break if it has one
RECURSIVE Laid(_, _)
Laid(runs, k) ==
    IF k = 0 THEN <<>>
    ELSE Laid(runs, k - 1)
           \o (IF BreakBefore(runs, k) THEN <<"\n">> ELSE <<>>)
           \o runs[k].str

\* the text of page i of a document: empty when its extraction fails
TextOfPage(doc, i) ==
    IF doc.pages[i].textFails THEN <<>>
    ELSE Laid(Runs(doc.pages[i].items), Len(Runs(doc.pages[i].items)))

\* C25: every record of the registry has pageCount page texts, the text at
\* index i - 1 being the text of page i of the document loaded; a page whose
\* text extraction fails has the empty string at its index, the other pages
\* have their texts, and no load fails for it (a load only fails at the
\* fetch/read or at the opening of the document).
C25_PageTexts ==
    /\ \A k \in 1 .. Len(loadedPDFs) :
          LET pdf == loadedPDFs[k] IN
          /\ completed[pdf.path].last # <<>>
          /\ LET doc == Parse(completed[pdf.path].last[1]) IN
             /\ pdf.pageCount = doc.numPages
             /\ Len(pdf.pages) = pdf.pageCount
             /\ \A i \in 1 .. pdf.pageCount : pdf.pages[i] = TextOfPage(doc, i)
    /\ (ret.op = "loadPDF" /\ ~ret.out.ok) => ret.stage \in {"fetch", "open"}

\* a load of a document whose second page fails to give its text has just
\* succeeded: the record has three texts, the second empty, the first and
\* the third not
C25_Witness ==
    /\ ret.op = "loadPDF" /\ ret.stage = "done" /\ ret.out.ok
    /\ completed[ret.args.path].last = <<"docB">>
    /\ Parse("docB").pages[2].textFails
    /\ LET pdf == MapGet(loadedPDFs, ret.out.value.id) IN
       /\ pdf.pageCount = 3 /\ Len(pdf.pages) = 3
       /\ pdf.pages[2] = <<>>
       /\ pdf.pages[1] = <<"x", "y">>
       /\ pdf.pages[3] # <<>>

\* C27: the text of a page is the strings of its runs in input order, with
\* a line break before a run exactly when there is a run before it and
\* their vertical offsets differ by more than 1; there is none before the
\* first run.
C27_LineBreaks ==
    ret.op = "pageText" =>
        LET runs == Runs(ret.args.items) IN
        /\ ret.out.value = Laid(runs, Len(runs))
        /\ (runs # <<>> /\ runs[1].str # <<>>) => Head(ret.out.value) # "\n"

\* three runs at offsets 0, 1 and 3 have been joined: no break between the
\* first two (they differ by 1), a break before the third (it differs by 2)
C27_Witness ==
    /\ ret.op = "pageText"
    /\ ret.args.items = <<Item(<<"a">>, 0), Item(<<"a">>, 1), Item(<<"a">>, 3)>>
    /\ ret.out.value = <<"a", "a", "\n", "a">>

\* an item without a string between two runs: the break is decided by the
\* offsets of the runs, here rising from 1 to 4
C27_AcrossMarkedContent ==
    /\ ret.op = "pageText"
    /\ ret.args.items = <<Item(<<"a">>, 1), MarkedContent, Item(<<"a">>, 4)>>
    /\ ret.out.value = <<"a", "\n", "a">>

\* the stored items are the raw nodes, one for one and in the same order,
\* with the same titles, and so are their children all the way down
RECURSIVE SameForest(_, _)
SameForest(stored, raw) ==
    /\ Len(stored) = Len(raw)
    /\ \A k \in 1 .. Len(raw) :
          /\ stored[k].title = raw[k].title
          /\ SameForest(stored[k].children, raw[k].items)

\* the destination does not resolve to a page of the document: there is
\* none, the lookup of its name throws or finds nothing, its first element
\* is no object reference, or no page is the object referred to
Unresolved(doc, dest) ==
    \/ dest.kind = "none"
    \/ /\ dest.kind = "named"
       /\ \/ dest.name \notin DOMAIN doc.dests
          \/ doc.dests[dest.name].fails
          \/ doc.dests[dest.name].target = <<>>
    \/ LET target == IF dest.kind = "named" THEN doc.dests[dest.name].target
                     ELSE dest.target
       IN \/ target = <<>>
          \/ ~target[1].isRef
          \/ \A i \in 1 .. doc.numPages :
                doc.pages[i].ref.num # target[1].num \/ doc.pages[i].ref.gen # target[1].gen

\* no stored item has more than one page, a page is one of the document's,
\* and the nodes that do not resolve have none
RECURSIVE PagesResolved(_, _, _)
PagesResolved(stored, raw, doc) ==
    \A k \in 1 .. Len(raw) :
        /\ Cardinality(stored[k].page) <= 1
        /\ stored[k].page \subseteq 1 .. doc.numPages
        /\ Unresolved(doc, raw[k].dest) => stored[k].page = {}
        /\ PagesResolved(stored[k].children, raw[k].items, doc)

\* C26: a destination that does not resolve never aborts the traversal of
\* the outline: every stored outline has the shape, the titles and the
\* order of the raw outline of the document loaded, the nodes that do not
\* resolve have no page number, and every page number is in 1..pageCount.
C26_OutlineSurvivesFailures ==
    \A k \in 1 .. Len(loadedPDFs) :
        LET pdf == loadedPDFs[k] IN
        /\ completed[pdf.path].last # <<>>
        /\ LET doc == Parse(completed[pdf.path].last[1]) IN
           /\ pdf.pageCount = doc.numPages
           /\ ~doc.outline.fails =>
                 /\ SameForest(pdf.outline, doc.outline.items)
                 /\ PagesResolved(pdf.outline, doc.outline.items, doc)

\* the registry holds an outline in which a node whose lookup throws has no
\* page and has its children, of which one refers to no page of the
\* document and the next resolves by name to page 2; a later root names no
\* destination that exists, and the child of the last root has page 2
C26_Witness ==
    \E k \in 1 .. Len(loadedPDFs) :
        LET outline == loadedPDFs[k].outline IN
        /\ Len(outline) = 3
        /\ outline[1].page = {1}
        /\ outline[1].children[1].title = "Ch 1"
        /\ outline[1].children[1].page = {}
        /\ outline[1].children[1].children[1].children[1].page = {}
        /\ outline[1].children[1].children[1].children[2].page = {2}
        /\ outline[1].children[1].children[2].page = {}
        /\ outline[2].title = "Part II" /\ outline[2].page = {}
        /\ outline[3].children[1].title = "Ch 3"
        /\ outline[3].children[1].page = {2}

\* the data begins with the two bytes
BeginsWith(data, b1, b2) == Len(data) >= 2 /\ data[1] = b1 /\ data[2] = b2

\* C28: an embedded image that is returned is classified by the first two
\* bytes of its data: FF D8 makes it a jpeg and 89 50 a png, with the data
\* as it is; any other data is taken for raw pixels and returned as the
\* PNG made of them; the format is one of png, jpeg and unknown.
C28_ImageFormats ==
    ret.op = "extractImagesFromPage" =>
        LET imageObj == ret.args.imageObj
            data     == imageObj.data
            images   == ret.out.value
        IN /\ Len(images) <= 1
           /\ \A k \in 1 .. Len(images) :
                 /\ images[k].format \in {"png", "jpeg", "unknown"}
                 /\ BeginsWith(data, 255, 216) =>
                       images[k].format = "jpeg" /\ images[k].data = data
                 /\ BeginsWith(data, 137, 80) =>
                       images[k].format = "png" /\ images[k].data = data
                 /\ (~BeginsWith(data, 255, 216) /\ ~BeginsWith(data, 137, 80)) =>
                       /\ images[k].format = "png"
                       /\ images[k].data # data
                       /\ BeginsWith(images[k].data, 137, 80)
                       /\ Len(images[k].data) = 2 + imageObj.width * imageObj.height * 4

\* data that begins FF but not FF D8 has been returned as a PNG made of it
C28_Witness ==
    /\ ret.op = "extractImagesFromPage"
    /\ ret.args.imageObj.data = <<255, 80>>
    /\ Len(ret.out.value) = 1
    /\ ret.out.value[1].format = "png"
    /\ BeginsWith(ret.out.value[1].data, 137, 80)

\* a jpeg and a png have been passed through as they are
C28_JpegPassedThrough ==
    /\ ret.op = "extractImagesFromPage"
    /\ ret.args.imageObj.data = <<255, 216, 7>>
    /\ Len(ret.out.value) = 1
    /\ ret.out.value[1].format = "jpeg" /\ ret.out.value[1].data = <<255, 216, 7>>
C28_PngPassedThrough ==
    /\ ret.op = "extractImagesFromPage"
    /\ ret.args.imageObj.data = <<137, 80, 7>>
    /\ Len(ret.out.value) = 1
    /\ ret.out.value[1].format = "png" /\ ret.out.value[1].data = <<137, 80, 7>>

\* what is not returned: an image without data, an image object that cannot
\* be got, and other data with a width or a height of 0
C28_NotReturned ==
    ret.op = "extractImagesFromPage" =>
        LET imageObj == ret.args.imageObj IN
        ret.out.value = <<>> <=>
            \/ imageObj.getFails
            \/ imageObj.data = <<>>
            \/ /\ ~BeginsWith(imageObj.data, 255, 216)
               /\ ~BeginsWith(imageObj.data, 137, 80)
               /\ (imageObj.width = 0 \/ imageObj.height = 0)

\* C29: a failed load leaves the registry as it was.  No step of a load
\* other than its successful end changes the registry; a load fails at the
\* fetch/read or at the opening of the document, and in that step nothing
\* is added or modified; a record stored by an earlier successful load of
\* the location is in place afterwards with the content read then.
C29_FailedLoadKeepsRegistry ==
    /\ [][ ((\E c \in Suspended : c.kind = "loadPDF")
                /\ ~(ret'.op = "loadPDF" /\ ret'.out.ok))
              => loadedPDFs' = loadedPDFs ]_vars
    /\ [][ LoadFailed' =>
              /\ ret'.stage \in {"fetch", "open"}
              /\ loadedPDFs' = loadedPDFs ]_vars
    /\ [](LoadFailed =>
            LET path == ret.args.path IN
            IF completed[path].last = <<>>
            THEN ~MapHas(loadedPDFs, MD5(path))
            ELSE /\ MapHas(loadedPDFs, MD5(path))
                 /\ MapGet(loadedPDFs, MD5(path)).pages
                       = [i \in 1 .. Parse(completed[path].last[1]).numPages |->
                             TextOfPage(Parse(completed[path].last[1]), i)])

\* a load of a location loaded before has failed at the opening of the
\* document (the location now serves bytes that are no PDF), and the
\* record of the earlier load is in the registry
C29_Witness ==
    /\ LoadFailed /\ ret.stage = "open"
    /\ completed[ret.args.path].last # <<>>
    /\ MapHas(loadedPDFs, MD5(ret.args.path))
    /\ MapGet(loadedPDFs, MD5(ret.args.path)).pageCount
          = Parse(completed[ret.args.path].last[1]).numPages

\* the same after a failure of the fetch/read: a location that cannot be
\* reached, and one that answers 404
C29_FetchFailed ==
    /\ LoadFailed /\ ret.stage = "fetch"
    /\ ret.out.error = LoadError(HttpError)
    /\ MapHas(loadedPDFs, MD5(ret.args.path))

\* a first load of a location has failed and the registry has no record of
\* the location, while it has one of the other location
C29_NothingAdded ==
    /\ LoadFailed
    /\ completed[ret.args.path].last = <<>>
    /\ ~MapHas(loadedPDFs, MD5(ret.args.path))
    /\ Len(loadedPDFs) = 1
====
